---- MODULE Spec2Model ----
(***************************************************************************)
(* StorageService of data-storage/storage_service.py with the BO3Mutation  *)
(* of data-storage/mutations/bo3_mutations.py, modelled statement by       *)
(* statement: every SQL statement and every session.commit() /             *)
(* session.rollback() of save_match, _get_or_create_team_from_model,       *)
(* _get_or_create_tournament_from_model, update_match, save_ai_prediction  *)
(* and save_betting_odds is one step of the calling process.  The          *)
(* relational engine (schema.sql is not part of the sources) is modelled   *)
(* from the specification: committed tables, READ COMMITTED visibility, a  *)
(* uniqueness constraint on (source_type, source_id), the foreign key of   *)
(* match_id into matches, generated ids and NOW().  The parser of          *)
(* data-ingestion/bo3-api/parser.py is modelled as operators on tagged     *)
(* JSON values.  The BO3Client of data-ingestion/bo3-api/bo3_client.py is   *)
(* modelled call by call: one step per execution of the body of            *)
(* _make_request (one HTTP attempt with its sleeps) and one step per       *)
(* iteration of the paging loop of fetch_matches; the API answers every    *)
(* attempt with any response.                                              *)
(*                                                                         *)
(* Optional values (Python None / Optional[...]) are sequences of length   *)
(* zero or one: None is << >>, a present value v is << v >>.               *)
(***************************************************************************)
EXTENDS Integers, Sequences, FiniteSets, TLC

(* ------------------------------ bounds --------------------------------- *)

\* save_match, save_ai_prediction and save_betting_odds calls started in one
\* behaviour.
MaxCalls == 2

\* Top-level update_match calls started in one behaviour.
MaxUpdateCalls == 1

\* Persistence errors (connectivity, transaction failure) injected in one
\* behaviour.
MaxFaults == 1

\* Keys in the updates dictionary of one update_match call.
MaxUpdateKeys == 2

\* The largest max_retries a BO3Client is constructed with; the smallest
\* is -1, the constructor taking any integer.  3 is the default.
MaxRetries == 3

\* _make_request calls of one fetch_matches call.
MaxPages == 3

\* The callers that may run concurrently.
Procs == {1, 2}

(* --------------------------- optional values --------------------------- *)

None == << >>

Some(v) == << v >>

\* Python truthiness of an Optional[int]: None and 0 are falsy.
TruthyInt(x) == x # None /\ x[1] # 0

(* ------------------------------- inputs -------------------------------- *)

\* models.py BO3Team (country_code and logo_url are carried verbatim by the
\* code and read by nothing modelled here).
BO3Team(id, name) == [id |-> id, name |-> name, slug |-> Some(name)]

\* models.py BO3Tournament.
BO3Tournament(id, name) == [id |-> id, name |-> name, slug |-> Some(name)]

\* models.py BO3Match.  raw is the raw payload, a dict (parse_match keeps the
\* whole payload; a hand-built model may leave it None or empty).
BO3Match(id, slug, team1_id, team2_id, status, score1, score2, winner, loser, team1, team2, tournament, raw) ==
    [id |-> id, slug |-> slug, team1_id |-> team1_id, team2_id |-> team2_id,
     status |-> status, start_date |-> Some(10 + id), bo_type |-> Some(3),
     tier |-> Some("s"), team1_score |-> score1, team2_score |-> score2,
     winner_team_id |-> winner, loser_team_id |-> loser,
     tournament_id |-> IF tournament = None THEN None
                       ELSE Some(tournament[1].id),
     team1 |-> team1, team2 |-> team2, tournament |-> tournament,
     raw_data |-> raw]

Navi == BO3Team(1, "navi")

NaviRenamed == BO3Team(1, "natus")

Faze == BO3Team(2, "faze")

G2 == BO3Team(3, "g2")

Blast == BO3Tournament(1, "blast")

Esl == BO3Tournament(2, "esl")

\* Match 1, upcoming, both teams and the tournament embedded.
Match1 ==
    BO3Match(1, Some("m1"), Some(1), Some(2), "upcoming", None, None,
             None, None, Some(Navi), Some(Faze), Some(Blast),
             Some("id" :> 1))

\* The later snapshot of match 1: finished, team 1 renamed, another slug, no
\* tournament and no raw payload.
Match1Later ==
    BO3Match(1, Some("m1b"), Some(1), Some(2), "finished", Some(2), Some(0),
             Some(1), Some(2), Some(NaviRenamed), Some(Faze), None, None)

\* Match 2 between the same teams in reverse order, in the same tournament.
Match2 ==
    BO3Match(2, None, Some(2), Some(1), "current", Some(1), None,
             None, None, Some(Faze), Some(Navi), Some(Blast),
             Some("id" :> 2))

\* Match 3 with the bare team1_id only: the team1 object is absent.
Match3NoTeam1 ==
    BO3Match(3, None, Some(1), Some(2), "upcoming", None, None,
             None, None, None, Some(Faze), Some(Blast),
             Some("id" :> 3))

\* Match 3 with team2 absent and no bare team2_id either.
Match3NoTeam2 ==
    BO3Match(3, None, Some(1), None, "upcoming", None, None,
             None, None, Some(Navi), None, None,
             Some("id" :> 3))

\* Match 4 between a third team and team 1 in a second tournament, with an
\* empty raw payload.
Match4 ==
    BO3Match(4, Some("m4"), Some(3), Some(1), "current", None, None,
             None, None, Some(G2), Some(Navi), Some(Esl), Some(<< >>))

\* Another snapshot of match 1 in which everything differs: a third team
\* as team 1, the second tournament, slug, start date, format and tier.
Match1Moved ==
    [BO3Match(1, Some("m1c"), Some(3), Some(2), "current", Some(1), None,
              None, None, Some(G2), Some(Faze), Some(Esl),
              Some("id" :> 4))
        EXCEPT !.start_date = Some(99), !.bo_type = Some(5),
               !.tier = Some("a")]

\* The match models handed to save_match.
MatchInputs ==
    {Match1, Match1Later, Match1Moved, Match2, Match3NoTeam1, Match3NoTeam2,
     Match4}

(* ------------------------------ mutation ------------------------------- *)

SOURCE_TYPE == "bo3"

\* BO3Mutation.to_team_dict
to_team_dict(team_data) ==
    [source_type |-> SOURCE_TYPE, source_id |-> team_data.id,
     name |-> team_data.name, slug |-> team_data.slug]

\* BO3Mutation.to_tournament_dict
to_tournament_dict(tournament_data) ==
    [source_type |-> SOURCE_TYPE, source_id |-> tournament_data.id,
     name |-> tournament_data.name, slug |-> tournament_data.slug]

\* BO3Mutation._match_to_raw_dict
match_to_raw_dict(match_data) ==
    << "derived", match_data.id, match_data.slug, match_data.team1_id,
       match_data.team2_id, match_data.status, match_data.start_date,
       match_data.bo_type, match_data.tier, match_data.team1_score,
       match_data.team2_score, match_data.winner_team_id,
       match_data.loser_team_id, match_data.tournament_id >>

\* match_data.raw_data or self._match_to_raw_dict(match_data): the raw
\* payload when it is truthy, the derived dict when it is None or empty.
raw_data_of(match_data) ==
    IF match_data.raw_data # None /\ DOMAIN match_data.raw_data[1] # {}
    THEN << "payload", match_data.raw_data[1] >>
    ELSE match_to_raw_dict(match_data)

\* BO3Mutation.to_match_dict
to_match_dict(match_data) ==
    LET team1_id == IF match_data.team1 # None
                    THEN Some(match_data.team1[1].id)
                    ELSE match_data.team1_id
        team2_id == IF match_data.team2 # None
                    THEN Some(match_data.team2[1].id)
                    ELSE match_data.team2_id
        tournament_id == IF match_data.tournament # None
                         THEN Some(match_data.tournament[1].id)
                         ELSE match_data.tournament_id
    IN  ("source_type" :> SOURCE_TYPE) @@
        ("source_id" :> match_data.id) @@
        ("slug" :> match_data.slug) @@
        ("status" :> match_data.status) @@
        ("start_date" :> match_data.start_date) @@
        ("bo_type" :> match_data.bo_type) @@
        ("tier" :> match_data.tier) @@
        ("team1_score" :> match_data.team1_score) @@
        ("team2_score" :> match_data.team2_score) @@
        ("winner_team_id" :> match_data.winner_team_id) @@
        ("loser_team_id" :> match_data.loser_team_id) @@
        ("raw_data" :> raw_data_of(match_data)) @@
        ("_team1" :> match_data.team1) @@
        ("_team2" :> match_data.team2) @@
        ("_tournament" :> match_data.tournament) @@
        ("_team1_id" :> team1_id) @@
        ("_team2_id" :> team2_id) @@
        ("_tournament_id" :> tournament_id)

\* match_dict after the three pop() calls of save_match.
popped(match_dict) ==
    [k \in DOMAIN match_dict \ {"_team1", "_team2", "_tournament"}
        |-> match_dict[k]]

(* ------------------------------- state --------------------------------- *)

VARIABLES
    teams,        \* committed rows of table teams
    tournaments,  \* committed rows of table tournaments
    matches,      \* committed rows of table matches
    ai_predictions, \* committed rows of table ai_predictions
    betting_odds, \* committed rows of table betting_odds
    payload,      \* the raw API payload handed to the parser (None: none)
    parsed,       \* the outcome of parsing payload (None: not parsed yet)
    clock,        \* database time: ticks at every INSERT / UPDATE executed
    calls,        \* save_match, save_ai_prediction and save_betting_odds
                  \* calls started so far
    ucalls,       \* top-level update_match calls started so far
    faults,       \* persistence errors injected so far
    callers,      \* the processes that issue calls in this behaviour
    pc,           \* pc[p]: position of caller p inside its call
    call,         \* call[p]: the current (or last) call of p and its input
    loc,          \* loc[p]: local variables of the call
    pend,         \* pend[p]: the uncommitted write of p's open transaction
    out,          \* out[p]: outcome of p's last finished call
    prev,         \* prev[p]: the call before this one: its match input (None
                  \* for update_match) and its outcome
    pre,          \* pre[p]: the committed tables when the call began
                  \* (prev and pre are kept for a single caller, whose calls
                  \* follow one another)
    made,         \* made[p]: rows and updates the call has committed
    stmts,        \* stmts[p]: SQL statements the call has sent
    commits,      \* commits[p]: successful session.commit() of the call
    client,       \* the BO3Client object (None: not constructed yet)
    req,          \* the running (or last) _make_request call
    fetch         \* the running (or last) fetch_matches / fetch_match_by_id

vars == << teams, tournaments, matches, ai_predictions, betting_odds,
           payload, parsed, clock, calls, ucalls, faults,
           callers, pc, call, loc, pend, out, prev, pre, made, stmts, commits,
           client, req, fetch >>

\* The HTTP client.
http == << client, req, fetch >>

tables == << teams, tournaments, matches >>

\* What save_match and update_match never touch: the two tables that hang
\* off matches, and the parser's input and output.
side == << ai_predictions, betting_odds, payload, parsed, http >>

NoCall == [op |-> "none", m |-> None, match_id |-> None, updates |-> None,
           data |-> None]

NoOut == [status |-> "none", val |-> None, err |-> "none", at |-> "none"]

\* row_id is the id of the prediction or odds row the call found (existing)
\* or inserted (pred_id, odds_id); last_fetched_at is the datetime.utcnow()
\* save_match read for the parameters of its INSERT.
NoLoc == [slot |-> 0, team1_id |-> None, team2_id |-> None,
          tournament_id |-> None, match_id |-> None, row_id |-> None,
          last_fetched_at |-> None]

\* No _make_request call has been made: retry_count is the argument of the
\* running execution, attempts counts session.get calls, sleeps lists the
\* time.sleep calls and response is the answer to the last attempt.
NoReq == [pc |-> "none", retry_count |-> 0, attempts |-> 0,
          sleeps |-> << >>, response |-> None]

\* No fetch_matches / fetch_match_by_id call has been made: requests counts
\* its _make_request calls, all_matches is len(all_matches), result is what
\* the call returned or raised: value is the returned all_matches (by its
\* length) of fetch_matches, the returned document or None of
\* fetch_match_by_id.
NoFetch == [op |-> "none", pc |-> "idle", fetch_all_pages |-> FALSE,
            offset |-> 0, all_matches |-> 0, requests |-> 0,
            result |-> [status |-> "none", value |-> None, error |-> None]]

Snapshot == [teams |-> teams, tournaments |-> tournaments,
             matches |-> matches, ai_predictions |-> ai_predictions,
             betting_odds |-> betting_odds]

\* Callers cs, calls one after another when cs is a single caller, on a
\* store that holds the tables of snapshot store at database time now.
InitWith(cs, store, now) ==
    /\ teams = store.teams
    /\ tournaments = store.tournaments
    /\ matches = store.matches
    /\ ai_predictions = store.ai_predictions
    /\ betting_odds = store.betting_odds
    /\ clock = now
    /\ calls = 0
    /\ ucalls = 0
    /\ faults = 0
    /\ callers = cs
    /\ pc = [p \in Procs |-> "idle"]
    /\ call = [p \in Procs |-> NoCall]
    /\ loc = [p \in Procs |-> NoLoc]
    /\ pend = [p \in Procs |-> None]
    /\ out = [p \in Procs |-> NoOut]
    /\ prev = [p \in Procs |-> [m |-> None, out |-> NoOut]]
    /\ pre = [p \in Procs |-> store]
    /\ made = [p \in Procs |-> {}]
    /\ stmts = [p \in Procs |-> 0]
    /\ commits = [p \in Procs |-> 0]
    /\ client = None
    /\ req = NoReq
    /\ fetch = NoFetch

EmptyStore == [teams |-> {}, tournaments |-> {}, matches |-> {},
               ai_predictions |-> {}, betting_odds |-> {}]

\* No payload is being parsed.
ParserIdle == payload = None /\ parsed = None

\* Both callers share the empty store and run concurrently.
Init == InitWith(Procs, EmptyStore, 0) /\ ParserIdle

\* One caller on the empty store: calls follow one another.
InitSeq == InitWith({1}, EmptyStore, 0) /\ ParserIdle

(* ------------------------- the relational engine ----------------------- *)

\* select_id with the lookup on the wrong column: WHERE id = :source_id.
select_id_by_id(table, source_type, source_id) ==
    { r.id : r \in { x \in table : /\ x.source_type = source_type
                                   /\ x.id = source_id } }

\* SELECT id FROM <table> WHERE source_type = :source_type
\*                          AND source_id = :source_id
\* over the committed rows (READ COMMITTED): the ids found.
select_id(table, source_type, source_id) ==
    { r.id : r \in { x \in table : /\ x.source_type = source_type
                                   /\ x.source_id = source_id } }

\* select_team_id with the team name as part of the lookup key.
select_team_id_by_name(table, source_type, team_dict) ==
    { r.id : r \in { x \in table : /\ x.source_type = source_type
                                   /\ x.source_id = team_dict.source_id
                                   /\ x.name = team_dict.name } }

\* _get_or_create_team_from_model: source_id = team_dict["source_id"] and
\* the SELECT on teams by (source_type, source_id).
select_team_id(table, source_type, team_dict) ==
    select_id(table, source_type, team_dict.source_id)

\* unique_violation of a table that has no uniqueness constraint.
no_constraint(table, row) == FALSE

\* The uniqueness constraint on (source_type, source_id): a committed row
\* with the key makes the INSERT fail.
unique_violation(table, row) ==
    \E r \in table : /\ r.source_type = row.source_type
                     /\ r.source_id = row.source_id

\* An INSERT waits while another open transaction holds an uncommitted row
\* with the same key in the same table.
insert_blocked(p, tname, row) ==
    \E q \in Procs \ {p} :
        /\ pend[q] # None
        /\ pend[q][1].kind = "insert"
        /\ pend[q][1].table = tname
        /\ pend[q][1].row[1].source_type = row.source_type
        /\ pend[q][1].row[1].source_id = row.source_id

\* An UPDATE waits while another open transaction holds the row lock.
update_blocked(p, id) ==
    \E q \in Procs \ {p} :
        /\ pend[q] # None
        /\ pend[q][1].kind = "update"
        /\ pend[q][1].row # None
        /\ pend[q][1].row[1].id = id

\* The id the database generates for a row inserted at time now (a fresh
\* UUID; never equal to an upstream source id).
new_id(now) == 100 + now

\* A statement or commit either succeeds or fails with a persistence error.
Outcomes == {"ok"} \cup (IF faults < MaxFaults THEN {"fail"} ELSE {})

(* ----------------------------- call frames ----------------------------- *)

\* Raise that leaves the call where it is after a persistence error, so
\* that the failed statement is sent again.
Raise_and_retry(p, err, injected) ==
    IF injected
    THEN /\ faults' = faults + 1
         /\ UNCHANGED << pend, pc, out >>
    ELSE /\ pend' = [pend EXCEPT ![p] = None]
         /\ pc' = [pc EXCEPT ![p] = "idle"]
         /\ out' = [out EXCEPT ![p] = [status |-> "raised", val |-> None,
                                       err |-> err, at |-> pc[p]]]
         /\ UNCHANGED faults

\* except Exception: session.rollback(); logger.error(...); raise
Raise(p, err, injected) ==
    /\ pend' = [pend EXCEPT ![p] = None]
    /\ pc' = [pc EXCEPT ![p] = "idle"]
    /\ out' = [out EXCEPT ![p] = [status |-> "raised", val |-> None,
                                  err |-> err, at |-> pc[p]]]
    /\ faults' = IF injected THEN faults + 1 ELSE faults

Return(p, val) ==
    /\ pc' = [pc EXCEPT ![p] = "idle"]
    /\ out' = [out EXCEPT ![p] = [status |-> "ok", val |-> val,
                                  err |-> "none", at |-> "none"]]

\* Bookkeeping at the start of a top-level call.
BeginCall(p, c) ==
    /\ pc[p] = "idle"
    /\ p \in callers
    /\ prev' = IF Cardinality(callers) = 1
               THEN [prev EXCEPT ![p] = [m |-> call[p].m, out |-> out[p]]]
               ELSE prev
    /\ call' = [call EXCEPT ![p] = c]
    /\ pre' = IF Cardinality(callers) = 1
              THEN [pre EXCEPT ![p] = Snapshot]
              ELSE pre
    /\ made' = [made EXCEPT ![p] = {}]
    /\ stmts' = [stmts EXCEPT ![p] = 0]
    /\ commits' = [commits EXCEPT ![p] = 0]

Sent(p) == stmts' = [stmts EXCEPT ![p] = @ + 1]

Committed(p, what) ==
    /\ commits' = [commits EXCEPT ![p] = @ + 1]
    /\ made' = [made EXCEPT ![p] = @ \cup {what}]

match_dict(p) == to_match_dict(call[p].m[1])

(* ------------------------------ save_match ----------------------------- *)

\* missing_team testing the bare ids instead of the team sub-records.
missing_team_id(d) == d["_team1_id"] = None \/ d["_team2_id"] = None

\* if not team1_data or not team2_data (a dataclass instance is truthy)
missing_team(d) == d["_team1"] = None \/ d["_team2"] = None

\* save_match up to the first SQL statement: to_match_dict, the three pops
\* and the check for the two team sub-records.
SaveMatchBegin(p) ==
    /\ pc[p] = "idle"
    /\ calls < MaxCalls
    /\ \E m \in MatchInputs :
        /\ BeginCall(p, [op |-> "save_match", m |-> Some(m),
                         match_id |-> None, updates |-> None,
                         data |-> None])
        /\ loc' = [loc EXCEPT ![p] = [NoLoc EXCEPT !.slot = 1]]
        /\ IF missing_team(to_match_dict(m))
           THEN Raise(p, "ValueError", FALSE)
           ELSE /\ pc' = [pc EXCEPT ![p] = "team_select"]
                /\ out' = [out EXCEPT ![p] = NoOut]
                /\ UNCHANGED << pend, faults >>
        /\ calls' = calls + 1
        /\ UNCHANGED << tables, clock, ucalls, callers, side >>

\* The team sub-record resolved by the current call of
\* _get_or_create_team_from_model: team1 first, then team2.
team_data(p) ==
    IF loc[p].slot = 1 THEN match_dict(p)["_team1"]
                       ELSE match_dict(p)["_team2"]

\* The position after a team is resolved with internal id team_id.
TeamResolved(p, team_id) ==
    IF loc[p].slot = 1
    THEN /\ loc' = [loc EXCEPT ![p].team1_id = Some(team_id), ![p].slot = 2]
         /\ pc' = [pc EXCEPT ![p] = "team_select"]
    ELSE /\ loc' = [loc EXCEPT ![p].team2_id = Some(team_id)]
         /\ pc' = [pc EXCEPT ![p] =
                      IF match_dict(p)["_tournament"] # None
                      THEN "tournament_select" ELSE "match_select"]

\* _get_or_create_team_from_model: to_team_dict and the SELECT.
TeamSelect(p) ==
    /\ pc[p] = "team_select"
    /\ \E o \in Outcomes :
        IF team_data(p) = None
        THEN \* to_team_dict(None): team_data.id raises before any SQL
             /\ Raise(p, "AttributeError", FALSE)
             /\ UNCHANGED << loc, stmts >>
        ELSE IF o = "fail"
        THEN /\ Raise(p, "PersistenceError", TRUE)
             /\ Sent(p)
             /\ UNCHANGED loc
        ELSE LET team_dict == to_team_dict(team_data(p)[1])
                 source_type == match_dict(p)["source_type"]
                 existing == select_team_id(teams, source_type, team_dict)
             IN  /\ Sent(p)
                 /\ IF Cardinality(existing) > 1
                    THEN /\ Raise(p, "MultipleResultsFound", FALSE)
                         /\ UNCHANGED loc
                    ELSE IF existing # {}
                    THEN /\ TeamResolved(p, CHOOSE id \in existing : TRUE)
                         /\ UNCHANGED << pend, out, faults >>
                    ELSE /\ pc' = [pc EXCEPT ![p] = "team_insert"]
                         /\ UNCHANGED << loc, pend, out, faults >>
    /\ UNCHANGED << tables, clock, calls, ucalls, callers, side, call, prev, pre,
                    made, commits >>

\* The row INSERT INTO teams ... RETURNING id creates from team_dict.
team_row(team_dict, now) ==
    [id |-> new_id(now), source_type |-> team_dict.source_type,
     source_id |-> team_dict.source_id, name |-> team_dict.name,
     slug |-> team_dict.slug, created_at |-> now]

\* _get_or_create_team_from_model: the INSERT.
TeamInsert(p) ==
    /\ pc[p] = "team_insert"
    /\ LET row == team_row(to_team_dict(team_data(p)[1]), clock + 1)
       IN  /\ ~ insert_blocked(p, "teams", row)
           /\ Sent(p)
           /\ \E o \in Outcomes :
               IF o = "fail"
               THEN /\ Raise(p, "PersistenceError", TRUE)
                    /\ UNCHANGED clock
               ELSE IF unique_violation(teams, row)
               THEN /\ Raise(p, "IntegrityError", FALSE)
                    /\ UNCHANGED clock
               ELSE /\ pend' = [pend EXCEPT ![p] =
                           Some([kind |-> "insert", table |-> "teams",
                                 row |-> Some(row)])]
                    /\ clock' = clock + 1
                    /\ pc' = [pc EXCEPT ![p] = "team_commit"]
                    /\ UNCHANGED << out, faults >>
    /\ UNCHANGED << tables, calls, ucalls, callers, side, call, loc, prev, pre, made,
                    commits >>

\* _get_or_create_team_from_model: session.commit() and return team_id.
TeamCommit(p) ==
    /\ pc[p] = "team_commit"
    /\ \E o \in Outcomes :
        IF o = "fail"
        THEN /\ Raise(p, "PersistenceError", TRUE)
             /\ UNCHANGED << teams, loc, made, commits >>
        ELSE LET row == pend[p][1].row[1]
             IN  /\ teams' = teams \cup {row}
                 /\ pend' = [pend EXCEPT ![p] = None]
                 /\ Committed(p, << "teams", row.id >>)
                 /\ TeamResolved(p, row.id)
                 /\ UNCHANGED << out, faults >>
    /\ UNCHANGED << tournaments, matches, clock, calls, ucalls, callers, side, call,
                    prev, pre, stmts >>

\* _get_or_create_tournament_from_model: to_tournament_dict and the SELECT.
TournamentSelect(p) ==
    /\ pc[p] = "tournament_select"
    /\ Sent(p)
    /\ \E o \in Outcomes :
        IF o = "fail"
        THEN /\ Raise(p, "PersistenceError", TRUE)
             /\ UNCHANGED loc
        ELSE LET tournament_dict ==
                     to_tournament_dict(match_dict(p)["_tournament"][1])
                 source_type == match_dict(p)["source_type"]
                 existing == select_id(tournaments, source_type,
                                       tournament_dict.source_id)
             IN  IF Cardinality(existing) > 1
                 THEN /\ Raise(p, "MultipleResultsFound", FALSE)
                      /\ UNCHANGED loc
                 ELSE IF existing # {}
                 THEN /\ loc' = [loc EXCEPT ![p].tournament_id =
                                     Some(CHOOSE id \in existing : TRUE)]
                      /\ pc' = [pc EXCEPT ![p] = "match_select"]
                      /\ UNCHANGED << pend, out, faults >>
                 ELSE /\ pc' = [pc EXCEPT ![p] = "tournament_insert"]
                      /\ UNCHANGED << loc, pend, out, faults >>
    /\ UNCHANGED << tables, clock, calls, ucalls, callers, side, call, prev, pre,
                    made, commits >>

\* The row INSERT INTO tournaments ... RETURNING id creates.
tournament_row(tournament_dict, now) ==
    [id |-> new_id(now), source_type |-> tournament_dict.source_type,
     source_id |-> tournament_dict.source_id,
     name |-> tournament_dict.name, slug |-> tournament_dict.slug,
     created_at |-> now]

\* _get_or_create_tournament_from_model: the INSERT.
TournamentInsert(p) ==
    /\ pc[p] = "tournament_insert"
    /\ LET row == tournament_row(
                      to_tournament_dict(match_dict(p)["_tournament"][1]),
                      clock + 1)
       IN  /\ ~ insert_blocked(p, "tournaments", row)
           /\ Sent(p)
           /\ \E o \in Outcomes :
               IF o = "fail"
               THEN /\ Raise(p, "PersistenceError", TRUE)
                    /\ UNCHANGED clock
               ELSE IF unique_violation(tournaments, row)
               THEN /\ Raise(p, "IntegrityError", FALSE)
                    /\ UNCHANGED clock
               ELSE /\ pend' = [pend EXCEPT ![p] =
                           Some([kind |-> "insert", table |-> "tournaments",
                                 row |-> Some(row)])]
                    /\ clock' = clock + 1
                    /\ pc' = [pc EXCEPT ![p] = "tournament_commit"]
                    /\ UNCHANGED << out, faults >>
    /\ UNCHANGED << tables, calls, ucalls, callers, side, call, loc, prev, pre, made,
                    commits >>

\* _get_or_create_tournament_from_model: session.commit() and return.
TournamentCommit(p) ==
    /\ pc[p] = "tournament_commit"
    /\ \E o \in Outcomes :
        IF o = "fail"
        THEN /\ Raise(p, "PersistenceError", TRUE)
             /\ UNCHANGED << tournaments, loc, made, commits >>
        ELSE LET row == pend[p][1].row[1]
             IN  /\ tournaments' = tournaments \cup {row}
                 /\ pend' = [pend EXCEPT ![p] = None]
                 /\ Committed(p, << "tournaments", row.id >>)
                 /\ loc' = [loc EXCEPT ![p].tournament_id = Some(row.id)]
                 /\ pc' = [pc EXCEPT ![p] = "match_select"]
                 /\ UNCHANGED << out, faults >>
    /\ UNCHANGED << teams, matches, clock, calls, ucalls, callers, side, call, prev,
                    pre, stmts >>

\* save_match: SELECT id FROM matches WHERE source_type = ... AND source_id
MatchSelect(p) ==
    /\ pc[p] = "match_select"
    /\ Sent(p)
    /\ \E o \in Outcomes :
        IF o = "fail"
        THEN /\ Raise(p, "PersistenceError", TRUE)
             /\ UNCHANGED loc
        ELSE LET existing == select_id(matches, match_dict(p)["source_type"],
                                       match_dict(p)["source_id"])
             IN  IF Cardinality(existing) > 1
                 THEN /\ Raise(p, "MultipleResultsFound", FALSE)
                      /\ UNCHANGED loc
                 ELSE IF existing # {}
                 THEN \* match_id = UUID(str(existing)); self.update_match(...)
                      /\ loc' = [loc EXCEPT ![p].match_id =
                                     Some(CHOOSE id \in existing : TRUE)]
                      /\ pc' = [pc EXCEPT ![p] = "update_build"]
                      /\ UNCHANGED << pend, out, faults >>
                 ELSE /\ pc' = [pc EXCEPT ![p] = "match_params"]
                      /\ UNCHANGED << loc, pend, out, faults >>
    /\ UNCHANGED << tables, clock, calls, ucalls, callers, side, call, prev, pre,
                    made, commits >>

\* The parameters save_match binds to INSERT INTO matches; last_fetched_at
\* is the datetime.utcnow() read while they are built.
match_params(d, team1_id, team2_id, tournament_id, last_fetched_at) ==
    [source_type |-> d["source_type"],
     source_id |-> d["source_id"],
     slug |-> d["slug"],
     team1_id |-> team1_id,
     team2_id |-> team2_id,
     tournament_id |-> tournament_id,
     status |-> d["status"],
     start_date |-> d["start_date"],
     bo_type |-> d["bo_type"],
     tier |-> d["tier"],
     team1_score |-> d["team1_score"],
     team2_score |-> d["team2_score"],
     winner_team_id |-> IF TruthyInt(d["winner_team_id"])
                        THEN d["winner_team_id"] ELSE None,
     loser_team_id |-> IF TruthyInt(d["loser_team_id"])
                       THEN d["loser_team_id"] ELSE None,
     raw_data |-> d["raw_data"],
     last_fetched_at |-> last_fetched_at]

\* match_row with the upstream tournament id bound as tournament_id instead
\* of the internal id the tournament resolution returned.
match_row_upstream_tournament(d, team1_id, team2_id, tournament_id, last_fetched_at, now) ==
    [id |-> new_id(now), created_at |-> now, updated_at |-> now] @@
    match_params(d, team1_id, team2_id, d["_tournament_id"], last_fetched_at)

\* match_row with the upstream team id bound as team2_id instead of the
\* internal id _get_or_create_team_from_model returned.
match_row_upstream_team(d, team1_id, team2_id, tournament_id, last_fetched_at, now) ==
    [id |-> new_id(now), created_at |-> now, updated_at |-> now] @@
    match_params(d, team1_id, d["_team2_id"][1], tournament_id, last_fetched_at)

\* The row INSERT INTO matches ... RETURNING id creates at time now: the
\* bound parameters, the generated id, and the column defaults of
\* created_at and updated_at.
match_row(d, team1_id, team2_id, tournament_id, last_fetched_at, now) ==
    [id |-> new_id(now), created_at |-> now, updated_at |-> now] @@
    match_params(d, team1_id, team2_id, tournament_id, last_fetched_at)

\* save_match: the parameters of the INSERT are built, datetime.utcnow()
\* among them, before session.execute sends the statement; a write of
\* another caller made in between has a time between the two.
MatchParams(p) ==
    /\ pc[p] = "match_params"
    /\ loc' = [loc EXCEPT ![p].last_fetched_at = Some(clock + 1)]
    /\ pc' = [pc EXCEPT ![p] = "match_insert"]
    /\ UNCHANGED << tables, clock, calls, ucalls, faults, callers, side, call,
                    pend, out, prev, pre, made, stmts, commits >>

\* save_match: the INSERT INTO matches.
MatchInsert(p) ==
    /\ pc[p] = "match_insert"
    /\ LET row == match_row(popped(match_dict(p)), loc[p].team1_id[1],
                            loc[p].team2_id[1], loc[p].tournament_id,
                            loc[p].last_fetched_at[1], clock + 1)
       IN  /\ ~ insert_blocked(p, "matches", row)
           /\ Sent(p)
           /\ \E o \in Outcomes :
               IF o = "fail"
               THEN /\ Raise(p, "PersistenceError", TRUE)
                    /\ UNCHANGED << clock, loc >>
               ELSE IF unique_violation(matches, row)
               THEN /\ Raise(p, "IntegrityError", FALSE)
                    /\ UNCHANGED << clock, loc >>
               ELSE /\ pend' = [pend EXCEPT ![p] =
                           Some([kind |-> "insert", table |-> "matches",
                                 row |-> Some(row)])]
                    /\ clock' = clock + 1
                    /\ loc' = [loc EXCEPT ![p].match_id = Some(row.id)]
                    /\ pc' = [pc EXCEPT ![p] = "match_commit"]
                    /\ UNCHANGED << out, faults >>
    /\ UNCHANGED << tables, calls, ucalls, callers, side, call, prev, pre, made,
                    commits >>

\* save_match: session.commit() and return match_id.
MatchCommit(p) ==
    /\ pc[p] = "match_commit"
    /\ \E o \in Outcomes :
        IF o = "fail"
        THEN /\ Raise(p, "PersistenceError", TRUE)
             /\ UNCHANGED << matches, made, commits >>
        ELSE LET row == pend[p][1].row[1]
             IN  /\ matches' = matches \cup {row}
                 /\ pend' = [pend EXCEPT ![p] = None]
                 /\ Committed(p, << "matches", row.id >>)
                 /\ Return(p, Some(row.id))
                 /\ UNCHANGED faults
    /\ UNCHANGED << teams, tournaments, clock, calls, ucalls, callers, side, call,
                    loc, prev, pre, stmts >>

(* -------------- get_or_create_team, get_or_create_tournament ----------- *)

\* The dictionaries handed to get_or_create_team: with a falsy id, and
\* team 3 under another name with its slug.
TeamDicts ==
    {("id" :> 0) @@ ("name" :> "navi"),
     ("id" :> 3) @@ ("name" :> "gtwo") @@ ("slug" :> "gtwo")}

\* The dictionaries handed to get_or_create_tournament: without id, and
\* the second tournament by its id alone.
TournamentDicts == {("name" :> "esl"), ("id" :> 2)}

\* source_id = data.get("id"); if not source_id
no_source_id(d) == "id" \notin DOMAIN d \/ d["id"] = 0

\* The parameters _get_or_create_team and _get_or_create_tournament bind
\* to their INSERT: data.get("name", ""), data.get("slug") (the other
\* columns and metadata, the whole dictionary, are carried verbatim and
\* read by nothing modelled here).
insert_params(d, source_type) ==
    [source_type |-> source_type, source_id |-> d["id"],
     name |-> IF "name" \in DOMAIN d THEN d["name"] ELSE "",
     slug |-> IF "slug" \in DOMAIN d THEN Some(d["slug"]) ELSE None]

\* get_or_create_team(team_data, source_type) is called: the session is
\* opened and _get_or_create_team raises ValueError for a dictionary
\* without a truthy 'id'.
GetOrCreateTeamCall(p) ==
    /\ pc[p] = "idle"
    /\ calls < MaxCalls
    /\ \E d \in TeamDicts :
        /\ BeginCall(p, [op |-> "get_or_create_team", m |-> None,
                         match_id |-> None, updates |-> None,
                         data |-> Some(d)])
        /\ IF no_source_id(d)
           THEN Raise(p, "ValueError", FALSE)
           ELSE /\ pc' = [pc EXCEPT ![p] = "goc_team_select"]
                /\ out' = [out EXCEPT ![p] = NoOut]
                /\ UNCHANGED << pend, faults >>
    /\ loc' = [loc EXCEPT ![p] = NoLoc]
    /\ calls' = calls + 1
    /\ UNCHANGED << tables, clock, ucalls, callers, side >>

\* _get_or_create_team: the SELECT on teams by (source_type, source_id); a
\* row that exists is returned.  No except clause surrounds the call: an
\* error leaves through the with block, which closes the session.
GetOrCreateTeamSelect(p) ==
    /\ pc[p] = "goc_team_select"
    /\ Sent(p)
    /\ \E o \in Outcomes :
        IF o = "fail"
        THEN Raise(p, "PersistenceError", TRUE)
        ELSE LET existing == select_id(teams, SOURCE_TYPE,
                                       call[p].data[1]["id"])
             IN  IF Cardinality(existing) > 1
                 THEN Raise(p, "MultipleResultsFound", FALSE)
                 ELSE IF existing # {}
                 THEN /\ Return(p, Some(CHOOSE id \in existing : TRUE))
                      /\ UNCHANGED << pend, faults >>
                 ELSE /\ pc' = [pc EXCEPT ![p] = "goc_team_insert"]
                      /\ UNCHANGED << pend, out, faults >>
    /\ UNCHANGED << tables, clock, calls, ucalls, callers, side, call, loc,
                    prev, pre, made, commits >>

\* _get_or_create_team: the INSERT.
GetOrCreateTeamInsert(p) ==
    /\ pc[p] = "goc_team_insert"
    /\ LET row == team_row(insert_params(call[p].data[1], SOURCE_TYPE),
                           clock + 1)
       IN  /\ ~ insert_blocked(p, "teams", row)
           /\ Sent(p)
           /\ \E o \in Outcomes :
               IF o = "fail"
               THEN /\ Raise(p, "PersistenceError", TRUE)
                    /\ UNCHANGED clock
               ELSE IF unique_violation(teams, row)
               THEN /\ Raise(p, "IntegrityError", FALSE)
                    /\ UNCHANGED clock
               ELSE /\ pend' = [pend EXCEPT ![p] =
                           Some([kind |-> "insert", table |-> "teams",
                                 row |-> Some(row)])]
                    /\ clock' = clock + 1
                    /\ pc' = [pc EXCEPT ![p] = "goc_team_commit"]
                    /\ UNCHANGED << out, faults >>
    /\ UNCHANGED << tables, calls, ucalls, callers, side, call, loc, prev,
                    pre, made, commits >>

\* _get_or_create_team: session.commit() and return team_id.
GetOrCreateTeamCommit(p) ==
    /\ pc[p] = "goc_team_commit"
    /\ \E o \in Outcomes :
        IF o = "fail"
        THEN /\ Raise(p, "PersistenceError", TRUE)
             /\ UNCHANGED << teams, made, commits >>
        ELSE LET row == pend[p][1].row[1]
             IN  /\ teams' = teams \cup {row}
                 /\ pend' = [pend EXCEPT ![p] = None]
                 /\ Committed(p, << "teams", row.id >>)
                 /\ Return(p, Some(row.id))
                 /\ UNCHANGED faults
    /\ UNCHANGED << tournaments, matches, clock, calls, ucalls, callers, side,
                    call, loc, prev, pre, stmts >>

\* get_or_create_tournament(tournament_data, source_type) is called: the
\* session is opened and _get_or_create_tournament raises ValueError for
\* a dictionary without a truthy 'id'.
GetOrCreateTournamentCall(p) ==
    /\ pc[p] = "idle"
    /\ calls < MaxCalls
    /\ \E d \in TournamentDicts :
        /\ BeginCall(p, [op |-> "get_or_create_tournament", m |-> None,
                         match_id |-> None, updates |-> None,
                         data |-> Some(d)])
        /\ IF no_source_id(d)
           THEN Raise(p, "ValueError", FALSE)
           ELSE /\ pc' = [pc EXCEPT ![p] = "goc_tournament_select"]
                /\ out' = [out EXCEPT ![p] = NoOut]
                /\ UNCHANGED << pend, faults >>
    /\ loc' = [loc EXCEPT ![p] = NoLoc]
    /\ calls' = calls + 1
    /\ UNCHANGED << tables, clock, ucalls, callers, side >>

\* _get_or_create_tournament: the SELECT on tournaments by
\* (source_type, source_id); a row that exists is returned.
GetOrCreateTournamentSelect(p) ==
    /\ pc[p] = "goc_tournament_select"
    /\ Sent(p)
    /\ \E o \in Outcomes :
        IF o = "fail"
        THEN Raise(p, "PersistenceError", TRUE)
        ELSE LET existing == select_id(tournaments, SOURCE_TYPE,
                                       call[p].data[1]["id"])
             IN  IF Cardinality(existing) > 1
                 THEN Raise(p, "MultipleResultsFound", FALSE)
                 ELSE IF existing # {}
                 THEN /\ Return(p, Some(CHOOSE id \in existing : TRUE))
                      /\ UNCHANGED << pend, faults >>
                 ELSE /\ pc' = [pc EXCEPT ![p] = "goc_tournament_insert"]
                      /\ UNCHANGED << pend, out, faults >>
    /\ UNCHANGED << tables, clock, calls, ucalls, callers, side, call, loc,
                    prev, pre, made, commits >>

\* _get_or_create_tournament: the INSERT.
GetOrCreateTournamentInsert(p) ==
    /\ pc[p] = "goc_tournament_insert"
    /\ LET row == tournament_row(
                      insert_params(call[p].data[1], SOURCE_TYPE), clock + 1)
       IN  /\ ~ insert_blocked(p, "tournaments", row)
           /\ Sent(p)
           /\ \E o \in Outcomes :
               IF o = "fail"
               THEN /\ Raise(p, "PersistenceError", TRUE)
                    /\ UNCHANGED clock
               ELSE IF unique_violation(tournaments, row)
               THEN /\ Raise(p, "IntegrityError", FALSE)
                    /\ UNCHANGED clock
               ELSE /\ pend' = [pend EXCEPT ![p] =
                           Some([kind |-> "insert", table |-> "tournaments",
                                 row |-> Some(row)])]
                    /\ clock' = clock + 1
                    /\ pc' = [pc EXCEPT ![p] = "goc_tournament_commit"]
                    /\ UNCHANGED << out, faults >>
    /\ UNCHANGED << tables, calls, ucalls, callers, side, call, loc, prev,
                    pre, made, commits >>

\* _get_or_create_tournament: session.commit() and return tournament_id.
GetOrCreateTournamentCommit(p) ==
    /\ pc[p] = "goc_tournament_commit"
    /\ \E o \in Outcomes :
        IF o = "fail"
        THEN /\ Raise(p, "PersistenceError", TRUE)
             /\ UNCHANGED << tournaments, made, commits >>
        ELSE LET row == pend[p][1].row[1]
             IN  /\ tournaments' = tournaments \cup {row}
                 /\ pend' = [pend EXCEPT ![p] = None]
                 /\ Committed(p, << "tournaments", row.id >>)
                 /\ Return(p, Some(row.id))
                 /\ UNCHANGED faults
    /\ UNCHANGED << teams, matches, clock, calls, ucalls, callers, side, call,
                    loc, prev, pre, stmts >>

(* ----------------------------- update_match ---------------------------- *)

\* AllowedKeys with slug let through.
AllowedKeysAndSlug ==
    {"team1_score", "team2_score", "status", "winner_team_id",
     "loser_team_id", "raw_data", "slug"}

\* The keys update_match turns into SET clauses.
AllowedKeys == {"team1_score", "team2_score", "status", "winner_team_id",
                "loser_team_id", "raw_data"}

\* StampedColumns without the last_fetched_at clause.
StampedColumnsNoFetch == {"updated_at"}

\* The columns "updated_at = NOW()" and "last_fetched_at = NOW()" stamp.
StampedColumns == {"updated_at", "last_fetched_at"}

\* The loop over updates.items(): the columns that get a SET clause.
set_clauses(updates) == DOMAIN updates \cap AllowedKeys

\* An UPDATE that keeps the stored value of a column whose new value is
\* None.
apply_update_keep_present(row, updates, now) ==
    [c \in DOMAIN row |->
        IF c \in DOMAIN updates \cap AllowedKeys
        THEN IF /\ c \in {"team1_score", "team2_score", "winner_team_id",
                          "loser_team_id"}
                /\ updates[c] = None
             THEN row[c] ELSE updates[c]
        ELSE IF c \in StampedColumns THEN now
        ELSE row[c]]

\* UPDATE matches SET <set_clauses>, updated_at = NOW(),
\* last_fetched_at = NOW() applied to one row.
apply_update(row, updates, now) ==
    [c \in DOMAIN row |->
        IF c \in set_clauses(updates) THEN updates[c]
        ELSE IF c \in StampedColumns THEN now
        ELSE row[c]]

\* The updates argument of the running update_match: the popped match_dict
\* when save_match calls it, the caller's dictionary otherwise.
updates_of(p) ==
    IF call[p].op = "save_match" THEN popped(match_dict(p))
                                 ELSE call[p].updates[1]

\* The value the enclosing top-level call returns once update_match is done:
\* save_match returns match_id, update_match itself returns None.
result_of(p) ==
    IF call[p].op = "save_match" THEN loc[p].match_id ELSE None

\* Values callers pass under each key of an updates dictionary: the six
\* allow-listed keys, a key that names another column and a key that names
\* no column.
FullUpdates ==
    [status : {"finished"},
     team1_score : {None},
     team2_score : {Some(1)},
     winner_team_id : {Some(7)},
     loser_team_id : {Some(8)},
     raw_data : {<< "payload", ("id" :> 9) >>},
     slug : {Some("other")},
     unrelated_field : {"x"}]

UpdateKeys == {"status", "team1_score", "team2_score", "winner_team_id",
               "loser_team_id", "raw_data", "slug", "unrelated_field"}

\* A top-level call update_match(match_id, updates): up to the with block.
UpdateMatchCall(p) ==
    /\ pc[p] = "idle"
    /\ ucalls < MaxUpdateCalls
    /\ \E full \in FullUpdates,
          K \in {X \in SUBSET UpdateKeys : Cardinality(X) <= MaxUpdateKeys},
          id \in {r.id : r \in matches} \cup {0} :
        /\ BeginCall(p, [op |-> "update_match", m |-> None,
                         match_id |-> Some(id),
                         updates |-> Some([k \in K |-> full[k]]),
                         data |-> None])
        /\ loc' = [loc EXCEPT ![p] = [NoLoc EXCEPT !.match_id = Some(id)]]
        /\ pc' = [pc EXCEPT ![p] = "update_build"]
        /\ out' = [out EXCEPT ![p] = NoOut]
        /\ ucalls' = ucalls + 1
        /\ UNCHANGED << tables, clock, calls, faults, callers, side, pend >>

\* update_match: open its own session, build set_clauses and params; return
\* at once when no key is recognised.
UpdateMatchBuild(p) ==
    /\ pc[p] = "update_build"
    /\ IF set_clauses(updates_of(p)) = {}
       THEN Return(p, result_of(p))
       ELSE /\ pc' = [pc EXCEPT ![p] = "update_execute"]
            /\ UNCHANGED out
    /\ UNCHANGED << tables, clock, calls, ucalls, faults, callers, side, call, loc,
                    pend, prev, pre, made, stmts, commits >>

\* update_match: session.execute(UPDATE matches SET ... WHERE id = :match_id)
UpdateMatchExecute(p) ==
    /\ pc[p] = "update_execute"
    /\ ~ update_blocked(p, loc[p].match_id[1])
    /\ Sent(p)
    /\ \E o \in Outcomes :
        IF o = "fail"
        THEN /\ Raise(p, "PersistenceError", TRUE)
             /\ UNCHANGED clock
        ELSE LET hit == {r \in matches : r.id = loc[p].match_id[1]}
                 new == IF hit = {} THEN None
                        ELSE Some(apply_update(CHOOSE r \in hit : TRUE,
                                               updates_of(p), clock + 1))
             IN  /\ pend' = [pend EXCEPT ![p] =
                         Some([kind |-> "update", table |-> "matches",
                               row |-> new])]
                 /\ clock' = clock + 1
                 /\ pc' = [pc EXCEPT ![p] = "update_commit"]
                 /\ UNCHANGED << out, faults >>
    /\ UNCHANGED << tables, calls, ucalls, callers, side, call, loc, prev, pre, made,
                    commits >>

\* update_match: session.commit(); back in save_match, return match_id.
UpdateMatchCommit(p) ==
    /\ pc[p] = "update_commit"
    /\ \E o \in Outcomes :
        IF o = "fail"
        THEN /\ Raise(p, "PersistenceError", TRUE)
             /\ UNCHANGED << matches, made, commits >>
        ELSE LET new == pend[p][1].row
             IN  /\ matches' =
                        IF new = None THEN matches
                        ELSE {r \in matches : r.id # new[1].id}
                                 \cup {new[1]}
                 /\ pend' = [pend EXCEPT ![p] = None]
                 /\ Committed(p, << "update", loc[p].match_id[1] >>)
                 /\ Return(p, result_of(p))
                 /\ UNCHANGED faults
    /\ UNCHANGED << teams, tournaments, clock, calls, ucalls, callers, side, call,
                    loc, prev, pre, stmts >>

(* -------------------------- save_ai_prediction ------------------------- *)

\* models.py BO3PredictionScoresData.
BO3PredictionScoresData(predicted_score, closest_valid_score) ==
    [predicted_score |-> predicted_score,
     proximity_factors |-> << >>,
     closest_valid_score |-> closest_valid_score,
     overall_proximity_factor |-> predicted_score,
     neighbor_proximity_factor |-> predicted_score]

\* models.py BO3AIPrediction.
BO3AIPrediction(id, match_id, score1, score2, winner, scores_data) ==
    [id |-> id, match_id |-> match_id,
     prediction_team1_score |-> score1,
     prediction_team2_score |-> score2,
     prediction_winner_team_id |-> winner,
     prediction_scores_data |-> scores_data]

\* Two predictions of upstream match 1 with different upstream ids.
Prediction1 ==
    BO3AIPrediction(11, 1, 2, 0, 1, BO3PredictionScoresData(1, << 2, 0 >>))

Prediction2 ==
    BO3AIPrediction(12, 1, 1, 2, 2, BO3PredictionScoresData(2, << 1, 2 >>))

PredictionInputs == {Prediction1, Prediction2}

\* BO3Mutation.to_ai_prediction_dict
to_ai_prediction_dict(prediction_data, match_id) ==
    [match_id |-> match_id,
     source_type |-> SOURCE_TYPE,
     source_id |-> prediction_data.id,
     prediction_data |->
        [id |-> prediction_data.id,
         match_id |-> prediction_data.match_id,
         prediction_team1_score |-> prediction_data.prediction_team1_score,
         prediction_team2_score |-> prediction_data.prediction_team2_score,
         prediction_winner_team_id |->
             prediction_data.prediction_winner_team_id,
         prediction_scores_data |->
             [predicted_score |->
                  prediction_data.prediction_scores_data.predicted_score,
              proximity_factors |->
                  prediction_data.prediction_scores_data.proximity_factors,
              closest_valid_score |->
                  prediction_data.prediction_scores_data.closest_valid_score,
              overall_proximity_factor |->
                  prediction_data.prediction_scores_data
                      .overall_proximity_factor,
              neighbor_proximity_factor |->
                  prediction_data.prediction_scores_data
                      .neighbor_proximity_factor]]]

\* The match ids callers pass: the ids of the stored matches and one id
\* that no match row has.
MatchIdInputs == {r.id : r \in matches} \cup {0}

\* foreign_key_violation of a table whose match_id references nothing.
no_foreign_key(row) == FALSE

\* The foreign key of ai_predictions.match_id and betting_odds.match_id into
\* matches: an INSERT whose match_id has no match row fails.
foreign_key_violation(row) == ~ \E m \in matches : m.id = row.match_id

prediction_dict(p) == to_ai_prediction_dict(call[p].data[1],
                                            call[p].match_id[1])

\* SELECT id FROM ai_predictions WHERE match_id = :match_id
\*                                 AND source_type = :source_type
select_prediction_id(table, match_id, source_type) ==
    { r.id : r \in { x \in table : /\ x.match_id = match_id
                                   /\ x.source_type = source_type } }

\* save_ai_prediction up to the first SQL statement: to_ai_prediction_dict.
SavePredictionBegin(p) ==
    /\ pc[p] = "idle"
    /\ calls < MaxCalls
    /\ \E id \in MatchIdInputs, d \in PredictionInputs :
        /\ BeginCall(p, [op |-> "save_ai_prediction", m |-> None,
                         match_id |-> Some(id), updates |-> None,
                         data |-> Some(d)])
        /\ loc' = [loc EXCEPT ![p] = NoLoc]
        /\ pc' = [pc EXCEPT ![p] = "prediction_select"]
        /\ out' = [out EXCEPT ![p] = NoOut]
        /\ calls' = calls + 1
        /\ UNCHANGED << tables, side, clock, ucalls, faults, callers, pend >>

\* save_ai_prediction: the SELECT on (match_id, source_type).
PredictionSelect(p) ==
    /\ pc[p] = "prediction_select"
    /\ Sent(p)
    /\ \E o \in Outcomes :
        IF o = "fail"
        THEN /\ Raise(p, "PersistenceError", TRUE)
             /\ UNCHANGED loc
        ELSE LET existing ==
                     select_prediction_id(ai_predictions,
                                          prediction_dict(p).match_id,
                                          prediction_dict(p).source_type)
             IN  IF Cardinality(existing) > 1
                 THEN /\ Raise(p, "MultipleResultsFound", FALSE)
                      /\ UNCHANGED loc
                 ELSE IF existing # {}
                 THEN /\ loc' = [loc EXCEPT ![p].row_id =
                                     Some(CHOOSE id \in existing : TRUE)]
                      /\ pc' = [pc EXCEPT ![p] = "prediction_update"]
                      /\ UNCHANGED << pend, out, faults >>
                 ELSE /\ pc' = [pc EXCEPT ![p] = "prediction_insert"]
                      /\ UNCHANGED << loc, pend, out, faults >>
    /\ UNCHANGED << tables, side, clock, calls, ucalls, callers, call, prev,
                    pre, made, commits >>

\* prediction_update that leaves source_id as it was.
prediction_update_keep_source(row, d, now) ==
    [row EXCEPT !.prediction_data = d.prediction_data,
                !.updated_at = now]

\* UPDATE ai_predictions SET prediction_data = :prediction_data,
\* source_id = :source_id, updated_at = NOW() applied to one row.
prediction_update(row, d, now) ==
    [row EXCEPT !.prediction_data = d.prediction_data,
                !.source_id = d.source_id,
                !.updated_at = now]

\* save_ai_prediction: the UPDATE of the existing row (WHERE id = :id).
PredictionUpdate(p) ==
    /\ pc[p] = "prediction_update"
    /\ ~ update_blocked(p, loc[p].row_id[1])
    /\ Sent(p)
    /\ \E o \in Outcomes :
        IF o = "fail"
        THEN /\ Raise(p, "PersistenceError", TRUE)
             /\ UNCHANGED clock
        ELSE LET hit == {r \in ai_predictions : r.id = loc[p].row_id[1]}
                 new == IF hit = {} THEN None
                        ELSE Some(prediction_update(CHOOSE r \in hit : TRUE,
                                                    prediction_dict(p),
                                                    clock + 1))
             IN  /\ pend' = [pend EXCEPT ![p] =
                         Some([kind |-> "update", table |-> "ai_predictions",
                               row |-> new])]
                 /\ clock' = clock + 1
                 /\ pc' = [pc EXCEPT ![p] = "prediction_commit"]
                 /\ UNCHANGED << out, faults >>
    /\ UNCHANGED << tables, side, calls, ucalls, callers, call, loc, prev,
                    pre, made, commits >>

\* The row INSERT INTO ai_predictions ... RETURNING id creates.
prediction_row(d, now) ==
    [id |-> new_id(now), match_id |-> d.match_id,
     source_type |-> d.source_type, source_id |-> d.source_id,
     prediction_data |-> d.prediction_data,
     created_at |-> now, updated_at |-> now]

\* save_ai_prediction: the INSERT.
PredictionInsert(p) ==
    /\ pc[p] = "prediction_insert"
    /\ Sent(p)
    /\ LET row == prediction_row(prediction_dict(p), clock + 1)
       IN  \E o \in Outcomes :
               IF o = "fail"
               THEN /\ Raise(p, "PersistenceError", TRUE)
                    /\ UNCHANGED << clock, loc >>
               ELSE IF foreign_key_violation(row)
               THEN /\ Raise(p, "IntegrityError", FALSE)
                    /\ UNCHANGED << clock, loc >>
               ELSE /\ pend' = [pend EXCEPT ![p] =
                           Some([kind |-> "insert",
                                 table |-> "ai_predictions",
                                 row |-> Some(row)])]
                    /\ clock' = clock + 1
                    /\ loc' = [loc EXCEPT ![p].row_id = Some(row.id)]
                    /\ pc' = [pc EXCEPT ![p] = "prediction_commit"]
                    /\ UNCHANGED << out, faults >>
    /\ UNCHANGED << tables, side, calls, ucalls, callers, call, prev, pre,
                    made, commits >>

\* save_ai_prediction: session.commit() after the UPDATE or the INSERT, and
\* return the row's id.
PredictionCommit(p) ==
    /\ pc[p] = "prediction_commit"
    /\ \E o \in Outcomes :
        IF o = "fail"
        THEN /\ Raise(p, "PersistenceError", TRUE)
             /\ UNCHANGED << ai_predictions, made, commits >>
        ELSE LET new == pend[p][1].row
             IN  /\ ai_predictions' =
                        IF new = None THEN ai_predictions
                        ELSE {r \in ai_predictions : r.id # new[1].id}
                                 \cup {new[1]}
                 /\ pend' = [pend EXCEPT ![p] = None]
                 /\ Committed(p, << IF pend[p][1].kind = "insert"
                                    THEN "ai_predictions" ELSE "update",
                                    loc[p].row_id[1] >>)
                 /\ Return(p, loc[p].row_id)
                 /\ UNCHANGED faults
    /\ UNCHANGED << tables, betting_odds, payload, parsed, http, clock, calls,
                    ucalls, callers, call, loc, prev, pre, stmts >>

(* --------------------------- save_betting_odds ------------------------- *)

\* A Python float that is the fraction n / d in lowest terms.
Float(n, d) == << n, d >>

\* models.py BO3BettingTeam.
BO3BettingTeam(name, coeff, team_id) ==
    [name |-> name, coeff |-> coeff, active |-> TRUE, team_id |-> team_id,
     max_coeff |-> coeff, aggrement_score |-> Float(0, 1)]

\* models.py BO3BettingOdds.
BO3BettingOdds(provider, team_1, team_2) ==
    [provider |-> provider, team_1 |-> team_1, team_2 |-> team_2,
     path |-> None, markets_count |-> Some(1), additional_markets |-> None]

\* Provider a: 2.0 against 1.5.
OddsA ==
    BO3BettingOdds("a", BO3BettingTeam("navi", Float(2, 1), 1),
                        BO3BettingTeam("faze", Float(3, 2), 2))

\* Provider a later on: team 1 has no coefficient any more, 3.0 for team 2.
OddsALater ==
    BO3BettingOdds("a", BO3BettingTeam("navi", Float(0, 1), 1),
                        BO3BettingTeam("faze", Float(3, 1), 2))

\* Provider b: 2.5 against 1.6.
OddsB ==
    BO3BettingOdds("b", BO3BettingTeam("navi", Float(5, 2), 1),
                        BO3BettingTeam("faze", Float(8, 5), 2))

OddsInputs == {OddsA, OddsALater, OddsB}

\* The reciprocal taken without looking at the coefficient first: for a
\* coefficient of zero the division has a zero divisor.
implied_prob_unguarded(coeff) == Some(Float(coeff[2], coeff[1]))

\* 1.0 / coeff if coeff else None
implied_prob(coeff) ==
    IF coeff[1] # 0 THEN Some(Float(coeff[2], coeff[1])) ELSE None

\* The team_1 / team_2 entry of odds_data.
betting_team_dict(team) ==
    [name |-> team.name, coeff |-> team.coeff, active |-> team.active,
     team_id |-> team.team_id, max_coeff |-> team.max_coeff,
     aggrement_score |-> team.aggrement_score]

\* BO3Mutation.to_betting_odds_dict
to_betting_odds_dict(odds_data, match_id) ==
    [match_id |-> match_id,
     source_type |-> SOURCE_TYPE,
     provider |-> odds_data.provider,
     team1_odds |-> odds_data.team_1.coeff,
     team2_odds |-> odds_data.team_2.coeff,
     team1_implied_prob |-> implied_prob(odds_data.team_1.coeff),
     team2_implied_prob |-> implied_prob(odds_data.team_2.coeff),
     odds_data |->
        [path |-> odds_data.path,
         provider |-> odds_data.provider,
         team_1 |-> betting_team_dict(odds_data.team_1),
         team_2 |-> betting_team_dict(odds_data.team_2),
         markets_count |-> odds_data.markets_count,
         additional_markets |-> odds_data.additional_markets]]

odds_dict(p) == to_betting_odds_dict(call[p].data[1], call[p].match_id[1])

\* select_odds_id without the provider in the lookup key.
select_odds_id_any_provider(table, match_id, source_type, provider) ==
    { r.id : r \in { x \in table : /\ x.match_id = match_id
                                   /\ x.source_type = source_type } }

\* SELECT id FROM betting_odds WHERE match_id = :match_id
\*     AND source_type = :source_type AND provider = :provider
select_odds_id(table, match_id, source_type, provider) ==
    { r.id : r \in { x \in table : /\ x.match_id = match_id
                                   /\ x.source_type = source_type
                                   /\ x.provider = provider } }

\* save_betting_odds up to the first SQL statement: to_betting_odds_dict.
SaveOddsBegin(p) ==
    /\ pc[p] = "idle"
    /\ calls < MaxCalls
    /\ \E id \in MatchIdInputs, d \in OddsInputs :
        /\ BeginCall(p, [op |-> "save_betting_odds", m |-> None,
                         match_id |-> Some(id), updates |-> None,
                         data |-> Some(d)])
        /\ loc' = [loc EXCEPT ![p] = NoLoc]
        /\ pc' = [pc EXCEPT ![p] = "odds_select"]
        /\ out' = [out EXCEPT ![p] = NoOut]
        /\ calls' = calls + 1
        /\ UNCHANGED << tables, side, clock, ucalls, faults, callers, pend >>

\* save_betting_odds: the SELECT on (match_id, source_type, provider).
OddsSelect(p) ==
    /\ pc[p] = "odds_select"
    /\ Sent(p)
    /\ \E o \in Outcomes :
        IF o = "fail"
        THEN /\ Raise(p, "PersistenceError", TRUE)
             /\ UNCHANGED loc
        ELSE LET existing ==
                     select_odds_id(betting_odds, odds_dict(p).match_id,
                                    odds_dict(p).source_type,
                                    odds_dict(p).provider)
             IN  IF Cardinality(existing) > 1
                 THEN /\ Raise(p, "MultipleResultsFound", FALSE)
                      /\ UNCHANGED loc
                 ELSE IF existing # {}
                 THEN /\ loc' = [loc EXCEPT ![p].row_id =
                                     Some(CHOOSE id \in existing : TRUE)]
                      /\ pc' = [pc EXCEPT ![p] = "odds_update"]
                      /\ UNCHANGED << pend, out, faults >>
                 ELSE /\ pc' = [pc EXCEPT ![p] = "odds_insert"]
                      /\ UNCHANGED << loc, pend, out, faults >>
    /\ UNCHANGED << tables, side, clock, calls, ucalls, callers, call, prev,
                    pre, made, commits >>

\* UPDATE betting_odds SET team1_odds, team2_odds, team1_implied_prob,
\* team2_implied_prob, odds_data, updated_at = NOW(), fetched_at = NOW()
\* applied to one row.
odds_update(row, d, now) ==
    [row EXCEPT !.team1_odds = d.team1_odds,
                !.team2_odds = d.team2_odds,
                !.team1_implied_prob = d.team1_implied_prob,
                !.team2_implied_prob = d.team2_implied_prob,
                !.odds_data = d.odds_data,
                !.updated_at = now,
                !.fetched_at = now]

\* save_betting_odds: the UPDATE of the existing row (WHERE id = :id).
OddsUpdate(p) ==
    /\ pc[p] = "odds_update"
    /\ ~ update_blocked(p, loc[p].row_id[1])
    /\ Sent(p)
    /\ \E o \in Outcomes :
        IF o = "fail"
        THEN /\ Raise(p, "PersistenceError", TRUE)
             /\ UNCHANGED clock
        ELSE LET hit == {r \in betting_odds : r.id = loc[p].row_id[1]}
                 new == IF hit = {} THEN None
                        ELSE Some(odds_update(CHOOSE r \in hit : TRUE,
                                              odds_dict(p), clock + 1))
             IN  /\ pend' = [pend EXCEPT ![p] =
                         Some([kind |-> "update", table |-> "betting_odds",
                               row |-> new])]
                 /\ clock' = clock + 1
                 /\ pc' = [pc EXCEPT ![p] = "odds_commit"]
                 /\ UNCHANGED << out, faults >>
    /\ UNCHANGED << tables, side, calls, ucalls, callers, call, loc, prev,
                    pre, made, commits >>

\* The row INSERT INTO betting_odds ... RETURNING id creates.
odds_row(d, now) ==
    [id |-> new_id(now), match_id |-> d.match_id,
     source_type |-> d.source_type, provider |-> d.provider,
     team1_odds |-> d.team1_odds, team2_odds |-> d.team2_odds,
     team1_implied_prob |-> d.team1_implied_prob,
     team2_implied_prob |-> d.team2_implied_prob,
     odds_data |-> d.odds_data, fetched_at |-> now,
     created_at |-> now, updated_at |-> now]

\* save_betting_odds: the INSERT.
OddsInsert(p) ==
    /\ pc[p] = "odds_insert"
    /\ Sent(p)
    /\ LET row == odds_row(odds_dict(p), clock + 1)
       IN  \E o \in Outcomes :
               IF o = "fail"
               THEN /\ Raise(p, "PersistenceError", TRUE)
                    /\ UNCHANGED << clock, loc >>
               ELSE IF foreign_key_violation(row)
               THEN /\ Raise(p, "IntegrityError", FALSE)
                    /\ UNCHANGED << clock, loc >>
               ELSE /\ pend' = [pend EXCEPT ![p] =
                           Some([kind |-> "insert", table |-> "betting_odds",
                                 row |-> Some(row)])]
                    /\ clock' = clock + 1
                    /\ loc' = [loc EXCEPT ![p].row_id = Some(row.id)]
                    /\ pc' = [pc EXCEPT ![p] = "odds_commit"]
                    /\ UNCHANGED << out, faults >>
    /\ UNCHANGED << tables, side, calls, ucalls, callers, call, prev, pre,
                    made, commits >>

\* save_betting_odds: session.commit() after the UPDATE or the INSERT, and
\* return the row's id.
OddsCommit(p) ==
    /\ pc[p] = "odds_commit"
    /\ \E o \in Outcomes :
        IF o = "fail"
        THEN /\ Raise(p, "PersistenceError", TRUE)
             /\ UNCHANGED << betting_odds, made, commits >>
        ELSE LET new == pend[p][1].row
             IN  /\ betting_odds' =
                        IF new = None THEN betting_odds
                        ELSE {r \in betting_odds : r.id # new[1].id}
                                 \cup {new[1]}
                 /\ pend' = [pend EXCEPT ![p] = None]
                 /\ Committed(p, << IF pend[p][1].kind = "insert"
                                    THEN "betting_odds" ELSE "update",
                                    loc[p].row_id[1] >>)
                 /\ Return(p, loc[p].row_id)
                 /\ UNCHANGED faults
    /\ UNCHANGED << tables, ai_predictions, payload, parsed, http, clock, calls,
                    ucalls, callers, call, loc, prev, pre, stmts >>

(* -------------------------------- parser ------------------------------- *)

\* JSON values of an API payload, tagged by their Python type.  A dict is
\* built from its items in insertion order; it holds the function from its
\* keys to their values (a key the payload does not have is not in the
\* function's domain; of two items with one key the later gives the value)
\* and the list of its keys in insertion order.
JNull == << "null" >>

JInt(n) == << "int", n >>

JFloat(n, d) == << "float", Float(n, d) >>

JStr(str) == << "str", str >>

JList(seq) == << "list", seq >>

JDict(items) ==
    LET firsts == {i \in DOMAIN items :
                      \A j \in DOMAIN items : j < i => items[j][1] # items[i][1]}
    IN  << "dict",
           [k \in {items[i][1] : i \in DOMAIN items} |->
               items[CHOOSE i \in DOMAIN items :
                        /\ items[i][1] = k
                        /\ \A j \in DOMAIN items : items[j][1] = k => j <= i][2]],
           [n \in 1..Cardinality(firsts) |->
               items[CHOOSE i \in firsts :
                        Cardinality({j \in firsts : j < i}) = n - 1][1]] >>

\* Marks, in the enumeration of payloads, a key that is left out.
Missing == << "missing" >>

\* The item (k, v) of a dict, or nothing when v is Missing.
Field(k, v) == IF v = Missing THEN << >> ELSE << << k, v >> >>

\* d.get(k) with 0 for a key that is not there.
get_or_zero(d, k) == IF k \in DOMAIN d THEN d[k] ELSE JInt(0)

\* d.get(k)
get(d, k) == IF k \in DOMAIN d THEN d[k] ELSE JNull

\* d.get(k, default)
get_default(d, k, default) == IF k \in DOMAIN d THEN d[k] ELSE default

\* A test for presence instead of truthiness: v is not None.
is_not_none(v) == v # JNull

\* Python truthiness: bool(v), "if v", "not v".
truthy(v) ==
    CASE v[1] = "null" -> FALSE
      [] v[1] = "int" -> v[2] # 0
      [] v[1] = "float" -> v[2][1] # 0
      [] v[1] = "str" -> v[2] # ""
      [] v[1] = "list" -> v[2] # << >>
      [] v[1] = "dict" -> DOMAIN v[2] # {}

\* isinstance(v, dict)
is_dict(v) == v[1] = "dict"

\* The outcome of evaluating an expression: a value or a raised exception.
Ok(v) == [status |-> "ok", val |-> << v >>, err |-> "none"]

Raises(err) == [status |-> "raised", val |-> << >>, err |-> err]

\* The strings that int() and float() accept, with their values.
IntLiterals == ("7" :> 7) @@ ("0" :> 0)

\* int(v): a float is truncated toward zero (the denominator of a Float is
\* positive), ValueError for a string that is no number, TypeError for
\* None, a dict or a list.
to_int(v) ==
    CASE v[1] = "int" -> Ok(v[2])
      [] v[1] = "float" ->
            IF v[2][1] >= 0 THEN Ok(v[2][1] \div v[2][2])
            ELSE Ok(-((-v[2][1]) \div v[2][2]))
      [] v[1] = "str" ->
            IF v[2] \in DOMAIN IntLiterals THEN Ok(IntLiterals[v[2]])
            ELSE Raises("ValueError")
      [] OTHER -> Raises("TypeError")

\* float(v)
to_float(v) ==
    CASE v[1] = "int" -> Ok(Float(v[2], 1))
      [] v[1] = "float" -> Ok(v[2])
      [] v[1] = "str" ->
            IF v[2] \in DOMAIN IntLiterals
            THEN Ok(Float(IntLiterals[v[2]], 1))
            ELSE Raises("ValueError")
      [] OTHER -> Raises("TypeError")

\* str(v) of a string, of None, or of an integer that has a literal.
to_str(v) ==
    IF v[1] = "str" THEN v[2]
    ELSE IF v[1] = "null" THEN "None"
    ELSE CHOOSE lit \in DOMAIN IntLiterals : IntLiterals[lit] = v[2]

\* The first exception raised when the expressions of rs are evaluated in
\* order, or "none".
first_raised(rs) ==
    IF \A i \in DOMAIN rs : rs[i].status = "ok" THEN "none"
    ELSE rs[CHOOSE i \in DOMAIN rs :
               /\ rs[i].status = "raised"
               /\ \A j \in DOMAIN rs : j < i => rs[j].status = "ok"].err

\* The characters of a string, in order.
chars(str) == [i \in 1..Len(str) |-> SubSeq(str, i, i)]

\* The keys of a dict, as iterating it yields them: in insertion order, a
\* key that was set again keeping its first place.
key_list(v) == v[3]

\* One element e of the iterable handed to dict(): the (key, value) pair it
\* is unpacked to.  An element that is no iterable raises TypeError, one
\* that has not exactly two items ValueError, an unhashable key (a list or
\* a dict) TypeError.  Keys are bare, values stay tagged.

dict_item(e) ==
    CASE e[1] = "str" ->
            IF Len(e[2]) # 2 THEN Raises("ValueError")
            ELSE Ok(<< SubSeq(e[2], 1, 1), JStr(SubSeq(e[2], 2, 2)) >>)
      [] e[1] = "list" ->
            IF Len(e[2]) # 2 THEN Raises("ValueError")
            ELSE IF e[2][1][1] \in {"list", "dict"} THEN Raises("TypeError")
            ELSE IF e[2][1] = JNull THEN Ok(<< JNull, e[2][2] >>)
            ELSE Ok(<< e[2][1][2], e[2][2] >>)
      [] e[1] = "dict" ->
            IF Len(key_list(e)) # 2 THEN Raises("ValueError")
            ELSE Ok(<< key_list(e)[1], JStr(key_list(e)[2]) >>)
      [] OTHER -> Raises("TypeError")

\* dict(v): a dict is copied; a list is read as a sequence of (key, value)
\* pairs, a later pair replacing an earlier one with the same key; every
\* character of a string is an element of length one, so that only the
\* empty string gives {} and any other raises ValueError; None and numbers
\* raise TypeError.
to_dict(v) ==
    CASE v[1] = "dict" -> Ok(v[2])
      [] v[1] = "str" -> IF v[2] = "" THEN Ok(<< >>)
                         ELSE Raises("ValueError")
      [] v[1] = "list" ->
            LET items == [i \in DOMAIN v[2] |-> dict_item(v[2][i])]
                err == first_raised(items)
                last(k) == CHOOSE i \in DOMAIN items :
                              /\ items[i].val[1][1] = k
                              /\ \A j \in DOMAIN items :
                                    items[j].val[1][1] = k => j <= i
            IN  IF err # "none" THEN Raises(err)
                ELSE Ok([k \in {items[i].val[1][1] : i \in DOMAIN items} |->
                            items[last(k)].val[1][2]])
      [] OTHER -> Raises("TypeError")

\* list(v): a list is copied, a string gives the list of its characters, a
\* dict the list of its keys, None and numbers raise TypeError.
to_list(v) ==
    CASE v[1] = "list" -> Ok(v[2])
      [] v[1] = "str" -> Ok(chars(v[2]))
      [] v[1] = "dict" -> Ok(key_list(v))
      [] OTHER -> Raises("TypeError")

\* The ISO 8601 strings that datetime.fromisoformat accepts, with the
\* datetime they denote: wall-clock date and time, and the UTC offset in
\* minutes of an aware datetime (None for a naive one).
IsoLiterals ==
    ("2024-01-01T10:00:00+00:00" :>
        [date |-> "2024-01-01", time |-> "10:00:00", utcoffset |-> Some(0)])
    @@ ("2024-01-01T10:00:00" :>
        [date |-> "2024-01-01", time |-> "10:00:00", utcoffset |-> None])

\* date_str with 'Z' replaced by '+00:00', for the strings that hold a 'Z'.
ZReplaced == ("2024-01-01T10:00:00Z" :> "2024-01-01T10:00:00+00:00")

\* parser.py parse_datetime: None for a falsy value; a value that is no
\* string has no endswith (AttributeError) and a string that is no ISO date
\* is rejected by fromisoformat (ValueError), both caught and turned into
\* None.
parse_datetime(date_str) ==
    IF ~ truthy(date_str) THEN None
    ELSE IF date_str[1] # "str" THEN None
    ELSE LET replaced == IF date_str[2] \in DOMAIN ZReplaced
                         THEN ZReplaced[date_str[2]] ELSE date_str[2]
         IN  IF replaced \in DOMAIN IsoLiterals
             THEN Some(IsoLiterals[replaced]) ELSE None

\* parse_team raising on a team object without id or name.
parse_team_strict(team_payload) ==
    IF ~ truthy(team_payload) \/ ~ is_dict(team_payload) THEN Ok(None)
    ELSE IF \/ ~ truthy(get(team_payload[2], "id"))
            \/ ~ truthy(get(team_payload[2], "name"))
    THEN Raises("ValueError")
    ELSE Ok(Some([id |-> to_int(get(team_payload[2], "id")).val[1],
                  name |-> to_str(get(team_payload[2], "name")),
                  slug |-> get(team_payload[2], "slug")]))

\* parser.py parse_team
parse_team(team_payload) ==
    IF ~ truthy(team_payload) \/ ~ is_dict(team_payload) THEN Ok(None)
    ELSE LET team_id == get(team_payload[2], "id")
             name == get(team_payload[2], "name")
         IN  IF ~ truthy(team_id) \/ ~ truthy(name) THEN Ok(None)
             ELSE IF to_int(team_id).status = "raised"
             THEN Raises(to_int(team_id).err)
             ELSE Ok(Some([id |-> to_int(team_id).val[1],
                           name |-> to_str(name),
                           slug |-> get(team_payload[2], "slug")]))

\* parser.py parse_tournament
parse_tournament(tournament_data) ==
    IF ~ truthy(tournament_data) \/ ~ is_dict(tournament_data)
    THEN Ok(None)
    ELSE LET tournament_id == get(tournament_data[2], "id")
             name == get(tournament_data[2], "name")
         IN  IF ~ truthy(tournament_id) \/ ~ truthy(name) THEN Ok(None)
             ELSE IF to_int(tournament_id).status = "raised"
             THEN Raises(to_int(tournament_id).err)
             ELSE Ok(Some(
                    [id |-> to_int(tournament_id).val[1],
                     name |-> to_str(name),
                     slug |-> get(tournament_data[2], "slug"),
                     tier |-> get(tournament_data[2], "tier"),
                     start_date |->
                         parse_datetime(get(tournament_data[2],
                                            "start_date"))]))

\* parse_prediction_scores_data reading a sub-structure that is missing,
\* empty or no mapping as an empty one: a record of defaults.
parse_prediction_scores_data_defaults(scores_data) ==
    LET d == IF truthy(scores_data) /\ is_dict(scores_data)
             THEN scores_data[2] ELSE << >>
        predicted_score ==
            to_float(get_default(d, "predicted_score", JFloat(0, 1)))
        proximity_factors ==
            to_dict(get_default(d, "proximity_factors", JDict(<< >>)))
        closest_valid_score ==
            to_list(get_default(d, "closest_valid_score", JList(<< >>)))
        err == first_raised(<< predicted_score, proximity_factors,
                               closest_valid_score >>)
    IN  IF err # "none" THEN Raises(err)
        ELSE Ok(Some(
               [predicted_score |-> predicted_score.val[1],
                proximity_factors |-> proximity_factors.val[1],
                closest_valid_score |-> closest_valid_score.val[1],
                overall_proximity_factor |-> Float(0, 1),
                neighbor_proximity_factor |-> Float(0, 1)]))

\* parser.py parse_prediction_scores_data
parse_prediction_scores_data(scores_data) ==
    IF ~ truthy(scores_data) \/ ~ is_dict(scores_data) THEN Ok(None)
    ELSE LET d == scores_data[2]
             predicted_score ==
                 to_float(get_default(d, "predicted_score", JFloat(0, 1)))
             proximity_factors ==
                 to_dict(get_default(d, "proximity_factors", JDict(<< >>)))
             closest_valid_score ==
                 to_list(get_default(d, "closest_valid_score",
                                     JList(<< >>)))
             overall ==
                 to_float(get_default(d, "overall_proximity_factor",
                                      JFloat(0, 1)))
             neighbor ==
                 to_float(get_default(d, "neighbor_proximity_factor",
                                      JFloat(0, 1)))
             err == first_raised(<< predicted_score, proximity_factors,
                                    closest_valid_score, overall, neighbor >>)
         IN  IF err # "none" THEN Raises(err)
             ELSE Ok(Some(
                    [predicted_score |-> predicted_score.val[1],
                     proximity_factors |-> proximity_factors.val[1],
                     closest_valid_score |-> closest_valid_score.val[1],
                     overall_proximity_factor |-> overall.val[1],
                     neighbor_proximity_factor |-> neighbor.val[1]]))

\* parser.py parse_ai_prediction
parse_ai_prediction(prediction_data) ==
    IF ~ truthy(prediction_data) \/ ~ is_dict(prediction_data)
    THEN Ok(None)
    ELSE LET d == prediction_data[2]
             prediction_id == get(d, "id")
             match_id == get(d, "match_id")
             scores_data ==
                 parse_prediction_scores_data(
                     get(d, "prediction_scores_data"))
             id_r == to_int(prediction_id)
             match_id_r == to_int(match_id)
             team1_score ==
                 to_int(get_default(d, "prediction_team1_score", JInt(0)))
             team2_score ==
                 to_int(get_default(d, "prediction_team2_score", JInt(0)))
             winner ==
                 to_int(get_default(d, "prediction_winner_team_id", JInt(0)))
             err == first_raised(<< id_r, match_id_r, team1_score,
                                    team2_score, winner >>)
         IN  IF ~ truthy(prediction_id) \/ ~ truthy(match_id) THEN Ok(None)
             ELSE IF scores_data.status = "raised"
             THEN Raises(scores_data.err)
             ELSE IF scores_data.val[1] = None THEN Ok(None)
             ELSE IF err # "none" THEN Raises(err)
             ELSE Ok(Some(
                    [id |-> id_r.val[1],
                     match_id |-> match_id_r.val[1],
                     prediction_team1_score |-> team1_score.val[1],
                     prediction_team2_score |-> team2_score.val[1],
                     prediction_winner_team_id |-> winner.val[1],
                     prediction_scores_data |-> scores_data.val[1][1]]))

\* parser.py parse_betting_team
parse_betting_team(team_payload) ==
    IF ~ truthy(team_payload) \/ ~ is_dict(team_payload) THEN Ok(None)
    ELSE LET d == team_payload[2]
             name == get_default(d, "name", JStr(""))
             coeff == to_float(get_default(d, "coeff", JFloat(0, 1)))
             team_id == to_int(get_default(d, "team_id", JInt(0)))
             max_coeff == to_float(get_default(d, "max_coeff", JFloat(0, 1)))
             aggrement_score ==
                 to_float(get_default(d, "aggrement_score", JFloat(0, 1)))
             err == first_raised(<< coeff, team_id, max_coeff,
                                    aggrement_score >>)
         IN  IF err # "none" THEN Raises(err)
             ELSE Ok(Some(
                    [name |-> to_str(name),
                     coeff |-> coeff.val[1],
                     active |-> truthy(get_default(d, "active", JNull)),
                     team_id |-> team_id.val[1],
                     max_coeff |-> max_coeff.val[1],
                     aggrement_score |-> aggrement_score.val[1]]))

\* parser.py parse_betting_odds
parse_betting_odds(odds_data) ==
    IF ~ truthy(odds_data) \/ ~ is_dict(odds_data) THEN Ok(None)
    ELSE LET d == odds_data[2]
             provider == get(d, "provider")
             team_1_data == get(d, "team_1")
             team_2_data == get(d, "team_2")
             team_1 == parse_betting_team(team_1_data)
             team_2 == parse_betting_team(team_2_data)
         IN  IF \/ ~ truthy(provider)
                \/ ~ truthy(team_1_data)
                \/ ~ truthy(team_2_data)
             THEN Ok(None)
             ELSE IF team_1.status = "raised" THEN Raises(team_1.err)
             ELSE IF team_2.status = "raised" THEN Raises(team_2.err)
             ELSE IF team_1.val[1] = None \/ team_2.val[1] = None
             THEN Ok(None)
             ELSE Ok(Some(
                    [provider |-> to_str(provider),
                     team_1 |-> team_1.val[1][1],
                     team_2 |-> team_2.val[1][1],
                     path |-> get(d, "path"),
                     markets_count |-> get(d, "markets_count"),
                     additional_markets |-> get(d, "additional_markets")]))

\* parser.py parse_match
parse_match(match_data) ==
    LET match_id == get(match_data, "id")
        team1 == parse_team(get(match_data, "team1"))
        team2 == parse_team(get(match_data, "team2"))
        tournament == parse_tournament(get(match_data, "tournament"))
        ai_predictions_r ==
            parse_ai_prediction(get(match_data, "ai_predictions"))
        bet_updates == parse_betting_odds(get(match_data, "bet_updates"))
        id_r == to_int(match_id)
        err == first_raised(<< team1, team2, tournament, ai_predictions_r,
                               bet_updates, id_r >>)
    IN  IF ~ truthy(match_id) THEN Raises("ValueError")
        ELSE IF err # "none" THEN Raises(err)
        ELSE Ok([id |-> id_r.val[1],
                 slug |-> get(match_data, "slug"),
                 team1_id |-> IF team1.val[1] # None
                              THEN JInt(team1.val[1][1].id)
                              ELSE get(match_data, "team1_id"),
                 team2_id |-> IF team2.val[1] # None
                              THEN JInt(team2.val[1][1].id)
                              ELSE get(match_data, "team2_id"),
                 status |-> to_str(get_default(match_data, "status",
                                               JStr("upcoming"))),
                 start_date |-> parse_datetime(get(match_data, "start_date")),
                 bo_type |-> get(match_data, "bo_type"),
                 tier |-> get(match_data, "tier"),
                 team1_score |-> get(match_data, "team1_score"),
                 team2_score |-> get(match_data, "team2_score"),
                 winner_team_id |-> get(match_data, "winner_team_id"),
                 loser_team_id |-> get(match_data, "loser_team_id"),
                 tournament_id |-> IF tournament.val[1] # None
                                   THEN JInt(tournament.val[1][1].id)
                                   ELSE get(match_data, "tournament_id"),
                 team1 |-> team1.val[1],
                 team2 |-> team2.val[1],
                 tournament |-> tournament.val[1],
                 ai_predictions |-> ai_predictions_r.val[1],
                 bet_updates |-> bet_updates.val[1],
                 raw_data |-> match_data])

\* ------ payloads handed to the parser ------

\* Date fields: absent, null, empty, with 'Z', with an offset, naive, no
\* date, no string.
DatePayloads ==
    {Missing, JNull, JStr(""), JStr("2024-01-01T10:00:00Z"),
     JStr("2024-01-01T10:00:00+00:00"), JStr("2024-01-01T10:00:00"),
     JStr("x"), JInt(7)}

TeamPayload(id, name) ==
    JDict(Field("id", id) \o Field("name", name)
          \o Field("slug", JStr("slug")))

\* Team and tournament objects: absent, null, empty, no mapping, complete,
\* without id, without name, with a falsy id or name, with a numeric and a
\* non-numeric string and a negative fraction as id.
TeamPayloads ==
    {Missing, JNull, JDict(<< >>), JStr("x"), JInt(7)} \cup
    {JDict(Field("id", JInt(7)) \o Field("name", JStr("navi"))
           \o Field("tier", t) \o Field("start_date", sd)) :
        t \in {Missing, JStr("s")}, sd \in DatePayloads} \cup
    {TeamPayload(id, name) :
        id \in {Missing, JNull, JInt(0), JInt(7), JStr("7"), JStr("x"),
                JFloat(-3, 2)},
        name \in {Missing, JNull, JStr(""), JStr("navi")}}

ScoresPayloads ==
    {Missing, JNull, JDict(<< >>), JStr("x"), JList(<< >>), JInt(7)} \cup
    {JDict(Field("predicted_score", s) \o Field("proximity_factors", f)
           \o Field("closest_valid_score", JList(<< JInt(2), JInt(0) >>))) :
        s \in {Missing, JFloat(3, 2), JNull, JStr("x")},
        f \in {Missing, JDict(<< >>), JNull}} \cup
    {JDict(Field("proximity_factors", f) \o Field("closest_valid_score", c)) :
        f \in {JList(<< JStr("ab") >>), JList(<< JInt(2), JInt(0) >>),
               JList(<< JList(<< JInt(1), JInt(2) >>), JStr("x") >>)},
        c \in {JDict(<< >>), JDict(Field("a", JInt(1))), JStr("ab")}} \cup
    {JDict(Field("proximity_factors", f) \o Field("closest_valid_score", c)) :
        f \in {JList(<< JDict(Field("a", JInt(1)) \o Field("b", JInt(2))) >>),
               JList(<< JDict(Field("b", JInt(1)) \o Field("a", JInt(2))) >>)},
        c \in {JDict(Field("a", JInt(1)) \o Field("b", JInt(2))),
               JDict(Field("b", JInt(1)) \o Field("a", JInt(2))),
               JDict(Field("a", JInt(1)) \o Field("b", JInt(2))
                     \o Field("c", JInt(3)))}}

PredictionPayloads ==
    {Missing, JNull, JDict(<< >>), JStr("x")} \cup
    {JDict(Field("id", id) \o Field("match_id", JInt(7))
           \o Field("prediction_team1_score", t)
           \o Field("prediction_scores_data", sc)) :
        id \in {Missing, JInt(7)},
        t \in {Missing, JInt(0), JNull, JStr("x"), JStr("7")},
        sc \in ScoresPayloads} \cup
    {JDict(Field("id", id) \o Field("match_id", mid)
           \o Field("prediction_scores_data", JDict(Field("predicted_score", JFloat(3, 2))))) :
        id \in {Missing, JInt(0), JInt(7)},
        mid \in {Missing, JInt(0), JInt(7)}}

BettingTeamPayloads ==
    {Missing, JNull, JDict(<< >>), JStr("x")} \cup
    {JDict(Field("name", JStr("navi")) \o Field("coeff", c)) :
        c \in {Missing, JFloat(3, 2), JFloat(2, 1), JInt(0), JNull,
               JStr("x")}}

OddsPayloads ==
    {Missing, JNull, JDict(<< >>), JStr("x")} \cup
    {JDict(Field("provider", pr) \o Field("team_1", t1)
           \o Field("team_2", t2)) :
        pr \in {Missing, JStr(""), JStr("a")},
        t1 \in BettingTeamPayloads, t2 \in BettingTeamPayloads}

\* A complete prediction and complete odds, for payloads that vary
\* something else.
GoodPrediction ==
    JDict(Field("id", JInt(7)) \o Field("match_id", JInt(7))
          \o Field("prediction_scores_data", JDict(Field("predicted_score", JFloat(3, 2)))))

GoodOdds ==
    JDict(Field("provider", JStr("a"))
          \o Field("team_1", JDict(Field("coeff", JFloat(3, 2))))
          \o Field("team_2", JDict(Field("coeff", JInt(0)))))

MatchPayload(id, team1, team2, tournament, prediction, odds) ==
    Field("id", id) \o Field("team1", team1) \o Field("team2", team2)
    \o Field("tournament", tournament) \o Field("team1_id", JInt(7))
    \o Field("ai_predictions", prediction) \o Field("bet_updates", odds)

\* Match payloads: every id with every team1 object, and, under a valid id,
\* every tournament, prediction and odds object.
MatchPayloads ==
    {MatchPayload(id, t, TeamPayload(JInt(7), JStr("faze")), Missing,
                  GoodPrediction, GoodOdds) :
        id \in {Missing, JNull, JInt(0), JInt(7), JStr("x")},
        t \in TeamPayloads} \cup
    {MatchPayload(JInt(7), TeamPayload(JInt(7), JStr("navi")), Missing, t,
                  Missing, Missing) : t \in TeamPayloads} \cup
    {MatchPayload(JInt(7), Missing, JNull, Missing, pr, GoodOdds) :
        pr \in PredictionPayloads} \cup
    {MatchPayload(JInt(7), Missing, JNull, Missing, GoodPrediction, o) :
        o \in OddsPayloads} \cup
    {Field("id", JInt(7)) \o Field("slug", sl) \o Field("start_date", sd)
     \o Field("team1_score", sc) \o Field("team2_score", sc)
     \o Field("winner_team_id", w) \o Field("loser_team_id", w)
     \o Field("bo_type", t) \o Field("tier", t) :
        sl \in {Missing, JStr("slug")}, sd \in DatePayloads,
        sc \in {Missing, JInt(2)}, w \in {Missing, JInt(7)},
        t \in {Missing, JInt(3)}}

\* What the parser is handed: a function of parser.py and its argument.
ParserInputs ==
    {[fn |-> "parse_match", arg |-> JDict(d)] : d \in MatchPayloads} \cup
    {[fn |-> "parse_team", arg |-> IF v = Missing THEN JNull ELSE v] :
        v \in TeamPayloads} \cup
    {[fn |-> "parse_tournament", arg |-> IF v = Missing THEN JNull ELSE v] :
        v \in TeamPayloads} \cup
    {[fn |-> "parse_ai_prediction",
      arg |-> IF v = Missing THEN JNull ELSE v] :
        v \in PredictionPayloads} \cup
    {[fn |-> "parse_betting_odds",
      arg |-> IF v = Missing THEN JNull ELSE v] : v \in OddsPayloads}

\* What a call of a parser function leaves alone.
store_vars == << tables, ai_predictions, betting_odds, payload, clock,
                 calls, ucalls, faults, callers, pc, call, loc, pend, out,
                 prev, pre, made, stmts, commits, http >>

\* A parser function fn is about to be called on the payload.
Handed(fn) == payload # None /\ parsed = None /\ payload[1].fn = fn

ParseMatch ==
    /\ Handed("parse_match")
    /\ parsed' = Some(parse_match(payload[1].arg[2]))
    /\ UNCHANGED store_vars

ParseTeam ==
    /\ Handed("parse_team")
    /\ parsed' = Some(parse_team(payload[1].arg))
    /\ UNCHANGED store_vars

ParseTournament ==
    /\ Handed("parse_tournament")
    /\ parsed' = Some(parse_tournament(payload[1].arg))
    /\ UNCHANGED store_vars

ParseAIPrediction ==
    /\ Handed("parse_ai_prediction")
    /\ parsed' = Some(parse_ai_prediction(payload[1].arg))
    /\ UNCHANGED store_vars

ParseBettingOdds ==
    /\ Handed("parse_betting_odds")
    /\ parsed' = Some(parse_betting_odds(payload[1].arg))
    /\ UNCHANGED store_vars

(* ------------------------------ BO3Client ------------------------------ *)

\* BO3Client.DEFAULT_PAGE_LIMIT
DEFAULT_PAGE_LIMIT == 50

\* BO3Client.DEFAULT_RETRY_DELAY, in seconds
DEFAULT_RETRY_DELAY == 1

\* What the API can answer to one session.get: a JSON document (a page of
\* `results` match objects whose `total` object may hold count and limit),
\* an HTTP error status that raise_for_status turns into HTTPError, or no
\* answer at all (a RequestException that is no HTTPError).
Responses ==
    {[kind |-> "json", status_code |-> 200,
      json |-> [results |-> n,
                total |-> JDict(Field("count", c) \o Field("limit", l))[2]]] :
        n \in 0..1, c \in {Missing, JInt(0), JInt(2)},
        l \in {Missing, JInt(1), JInt(0), JInt(-1)}} \cup
    {[kind |-> "HTTPError", status_code |-> sc, json |-> << >>] :
        sc \in {404, 429, 500}} \cup
    {[kind |-> "ConnectionError", status_code |-> 0, json |-> << >>]}

\* time.sleep(self.rate_limit_delay), and time.sleep(wait_time)
RateLimitSleep ==
    [why |-> "rate_limit_delay", secs |-> client[1].rate_limit_delay]

BackoffSleep(secs) == [why |-> "wait_time", secs |-> secs]

\* wait_time that does not grow with the retries.
wait_time_constant(retry_count) == DEFAULT_RETRY_DELAY

\* wait_time = self.DEFAULT_RETRY_DELAY * (2 ** retry_count)
wait_time(retry_count) == DEFAULT_RETRY_DELAY * (2 ^ retry_count)

\* Every HTTP error status of 429 and above taken as rate limiting.
rate_limited_or_server_error(e) ==
    e.kind = "HTTPError" /\ e.status_code >= 429

\* except HTTPError as e: if e.response.status_code == 429
rate_limited(e) == e.kind = "HTTPError" /\ e.status_code = 429

\* Every HTTP error taken as "not found".
not_found_any_status(e) == e.kind = "HTTPError"

\* fetch_match_by_id: except HTTPError as e:
\*                        if e.response.status_code == 404
not_found(e) == e.kind = "HTTPError" /\ e.status_code = 404

\* What the client's steps leave alone: the store and the parser.
beside_http == << tables, ai_predictions, betting_odds, payload, parsed,
                  clock, calls, ucalls, faults, callers, pc, call, loc,
                  pend, out, prev, pre, made, stmts, commits >>

\* The rate_limit_delay a BO3Client is constructed with: the default of
\* 0.5 seconds, and none.
RateLimitDelays == {Float(1, 2), Float(0, 1)}

\* BO3Client(max_retries = n, rate_limit_delay = d): both are stored as
\* given, a negative n too.
BO3ClientInit ==
    /\ client = None
    /\ \E n \in (-1)..MaxRetries : \E d \in RateLimitDelays :
          client' = Some([max_retries |-> n, rate_limit_delay |-> d])
    /\ UNCHANGED << req, fetch, beside_http >>

\* fetch_matches(fetch_all_pages = b) is called: all_matches = [],
\* offset = 0.
FetchMatchesCall ==
    /\ client # None
    /\ fetch.op = "none"
    /\ \E b \in BOOLEAN :
          fetch' = [NoFetch EXCEPT !.op = "fetch_matches",
                                   !.pc = "request",
                                   !.fetch_all_pages = b]
    /\ UNCHANGED << client, req, beside_http >>

\* fetch_match_by_id(match_id) is called.
FetchMatchByIdCall ==
    /\ client # None
    /\ fetch.op = "none"
    /\ fetch' = [NoFetch EXCEPT !.op = "fetch_match_by_id",
                                !.pc = "request"]
    /\ UNCHANGED << client, req, beside_http >>

\* self._make_request(endpoint, params = params): a logical request begins
\* with retry_count = 0.
MakeRequestCall ==
    /\ fetch.pc = "request"
    /\ fetch.requests < MaxPages
    /\ req' = [NoReq EXCEPT !.pc = "try"]
    /\ fetch' = [fetch EXCEPT !.pc = "waiting", !.requests = @ + 1]
    /\ UNCHANGED << client, beside_http >>

\* _make_request, lines 82-83: if retry_count == 0, the rate-limit delay
\* is slept; the recursive call of a retry passes by without sleeping.
MakeRequestRateLimit ==
    /\ req.pc = "try"
    /\ req' = [req EXCEPT !.pc = "get",
                          !.sleeps = IF req.retry_count = 0
                                     THEN Append(@, RateLimitSleep)
                                     ELSE @]
    /\ UNCHANGED << client, fetch, beside_http >>

\* _make_request, lines 85-111 up to the backoff sleep: the GET is
\* answered; the JSON document is returned, or the except clause decides
\* between the retry and the raise of the failure.
MakeRequestGet ==
    /\ req.pc = "get"
    /\ \E response \in Responses :
          LET got == [req EXCEPT !.attempts = @ + 1,
                                 !.response = Some(response)]
              may_retry == req.retry_count < client[1].max_retries
          IN  req' =
                IF response.kind = "json"
                THEN [got EXCEPT !.pc = "returned"]
                ELSE IF response.kind = "HTTPError"
                THEN IF rate_limited(response) /\ may_retry
                     THEN [got EXCEPT !.pc = "backoff"]
                     ELSE [got EXCEPT !.pc = "raised"]
                ELSE IF may_retry THEN [got EXCEPT !.pc = "backoff"]
                ELSE [got EXCEPT !.pc = "raised"]
    /\ UNCHANGED << client, fetch, beside_http >>

\* _make_request, lines 92-95 and 105-108: wait_time is slept and the
\* request is made again with retry_count + 1.
MakeRequestBackoff ==
    /\ req.pc = "backoff"
    /\ req' = [req EXCEPT
                  !.pc = "try",
                  !.sleeps = Append(@, BackoffSleep(wait_time(req.retry_count))),
                  !.retry_count = @ + 1]
    /\ UNCHANGED << client, fetch, beside_http >>

\* fetch_matches: one iteration of the paging loop after _make_request
\* returned the page; when the loop ends, all_matches is returned.
FetchMatchesPage ==
    /\ fetch.op = "fetch_matches"
    /\ fetch.pc = "waiting"
    /\ req.pc = "returned"
    /\ LET response == req.response[1].json
           total_count == get_default(response.total, "count", JInt(0))[2]
           current_limit ==
               get_default(response.total, "limit",
                           JInt(DEFAULT_PAGE_LIMIT))[2]
           extended == [fetch EXCEPT !.all_matches = @ + response.results]
           returned ==
               [status |-> "ok", value |-> Some(extended.all_matches),
                error |-> None]
       IN  fetch' =
             IF \/ ~ fetch.fetch_all_pages
                \/ fetch.offset + current_limit >= total_count
             THEN [extended EXCEPT !.pc = "done", !.result = returned]
             ELSE IF response.results = 0
             THEN [extended EXCEPT !.offset = @ + current_limit,
                                   !.pc = "done", !.result = returned]
             ELSE [extended EXCEPT !.offset = @ + current_limit,
                                   !.pc = "request"]
    /\ UNCHANGED << client, req, beside_http >>

\* fetch_matches: the failure _make_request raised propagates.
FetchMatchesRaise ==
    /\ fetch.op = "fetch_matches"
    /\ fetch.pc = "waiting"
    /\ req.pc = "raised"
    /\ fetch' = [fetch EXCEPT !.pc = "done",
                              !.result = [status |-> "raised",
                                          value |-> None,
                                          error |-> req.response]]
    /\ UNCHANGED << client, req, beside_http >>

\* fetch_match_by_id: return response
FetchMatchByIdReturn ==
    /\ fetch.op = "fetch_match_by_id"
    /\ fetch.pc = "waiting"
    /\ req.pc = "returned"
    /\ fetch' = [fetch EXCEPT !.pc = "done",
                              !.result = [status |-> "ok",
                                          value |-> Some(req.response[1].json),
                                          error |-> None]]
    /\ UNCHANGED << client, req, beside_http >>

\* fetch_match_by_id: _make_request raised; an HTTPError with status 404
\* becomes the return value None, any other failure goes on to the caller.
FetchMatchByIdExcept ==
    /\ fetch.op = "fetch_match_by_id"
    /\ fetch.pc = "waiting"
    /\ req.pc = "raised"
    /\ fetch' = [fetch EXCEPT
                    !.pc = "done",
                    !.result =
                        IF not_found(req.response[1])
                        THEN [status |-> "ok", value |-> None,
                              error |-> None]
                        ELSE [status |-> "raised", value |-> None,
                              error |-> req.response]]
    /\ UNCHANGED << client, req, beside_http >>

(* --------------------------- specifications ---------------------------- *)

Step(p) ==
    \/ SaveMatchBegin(p)
    \/ TeamSelect(p)
    \/ TeamInsert(p)
    \/ TeamCommit(p)
    \/ TournamentSelect(p)
    \/ TournamentInsert(p)
    \/ TournamentCommit(p)
    \/ MatchSelect(p)
    \/ MatchParams(p)
    \/ MatchInsert(p)
    \/ MatchCommit(p)
    \/ GetOrCreateTeamCall(p)
    \/ GetOrCreateTeamSelect(p)
    \/ GetOrCreateTeamInsert(p)
    \/ GetOrCreateTeamCommit(p)
    \/ GetOrCreateTournamentCall(p)
    \/ GetOrCreateTournamentSelect(p)
    \/ GetOrCreateTournamentInsert(p)
    \/ GetOrCreateTournamentCommit(p)
    \/ UpdateMatchBuild(p)
    \/ UpdateMatchExecute(p)
    \/ UpdateMatchCommit(p)

Next == \E p \in Procs : Step(p)

\* Concurrent callers, side of save_match.
Spec == Init /\ [][Next]_vars

\* One caller issuing save_match calls one after another.
SpecSeq == InitSeq /\ [][Next]_vars

\* The store after save_match(Match1) and then save_match(Match2) on the
\* empty store: teams 1 and 2, the tournament, and the two matches.
StoredNavi == team_row(to_team_dict(Navi), 1)

StoredFaze == team_row(to_team_dict(Faze), 2)

StoredBlast == tournament_row(to_tournament_dict(Blast), 3)

StoredMatch1 ==
    match_row(popped(to_match_dict(Match1)), StoredNavi.id, StoredFaze.id,
              Some(StoredBlast.id), 4, 4)

StoredMatch2 ==
    match_row(popped(to_match_dict(Match2)), StoredFaze.id, StoredNavi.id,
              Some(StoredBlast.id), 5, 5)

TwoMatchStore ==
    [teams |-> {StoredNavi, StoredFaze}, tournaments |-> {StoredBlast},
     matches |-> {StoredMatch1, StoredMatch2},
     ai_predictions |-> {}, betting_odds |-> {}]

InitUpd == InitWith({1}, TwoMatchStore, 5) /\ ParserIdle

NextUpd ==
    \E p \in Procs :
        \/ UpdateMatchCall(p)
        \/ UpdateMatchBuild(p)
        \/ UpdateMatchExecute(p)
        \/ UpdateMatchCommit(p)

\* One caller issuing update_match calls on the store of two saved matches.
SpecUpd == InitUpd /\ [][NextUpd]_vars

InitStore == InitWith({1}, TwoMatchStore, 5) /\ ParserIdle

NextStore ==
    \E p \in Procs :
        \/ Step(p)
        \/ SavePredictionBegin(p)
        \/ PredictionSelect(p)
        \/ PredictionUpdate(p)
        \/ PredictionInsert(p)
        \/ PredictionCommit(p)
        \/ SaveOddsBegin(p)
        \/ OddsSelect(p)
        \/ OddsUpdate(p)
        \/ OddsInsert(p)
        \/ OddsCommit(p)

\* One caller issuing save_match, save_ai_prediction and save_betting_odds
\* calls one after another on the store of two saved matches.
SpecStore == InitStore /\ [][NextStore]_vars

InitParse ==
    /\ InitWith({1}, EmptyStore, 0)
    /\ payload \in {Some(i) : i \in ParserInputs}
    /\ parsed = None

NextParse ==
    \/ ParseMatch
    \/ ParseTeam
    \/ ParseTournament
    \/ ParseAIPrediction
    \/ ParseBettingOdds

\* The parser functions applied to API payloads.
SpecParse == InitParse /\ [][NextParse]_vars

NextClient ==
    \/ BO3ClientInit
    \/ FetchMatchesCall
    \/ FetchMatchByIdCall
    \/ MakeRequestCall
    \/ MakeRequestRateLimit
    \/ MakeRequestGet
    \/ MakeRequestBackoff
    \/ FetchMatchesPage
    \/ FetchMatchesRaise
    \/ FetchMatchByIdReturn
    \/ FetchMatchByIdExcept

\* A BO3Client is constructed and one fetch_matches or fetch_match_by_id
\* call is made against an API that answers anything.
SpecClient == InitSeq /\ [][NextClient]_vars

\* The same with the client running on: a call that can take a step takes
\* one (every session.get ends, by an answer or by its timeout, and every
\* sleep ends).
SpecClientFair == SpecClient /\ WF_vars(NextClient)

(* ------------------------------- claims -------------------------------- *)

\* The rows of a table with the identity key (source_type, source_id).
rows_with_key(table, source_id) ==
    {r \in table : r.source_type = SOURCE_TYPE /\ r.source_id = source_id}

\* Caller p has finished its call.
Finished(p) == pc[p] = "idle" /\ call[p].op # "none"

\* The call of p repeats, with the same match input, the save_match call
\* that p made just before and that returned an id.
Repeats(p) ==
    /\ call[p].op = "save_match"
    /\ prev[p].m = call[p].m
    /\ prev[p].out.status = "ok"

\* C1: save_match is idempotent.  When a save_match call follows a
\* successful save_match call with the same input, the second call commits
\* no new team, tournament or match row and holds no uncommitted insert,
\* every identity key of the input has exactly one row, the call fails only
\* on a persistence error of the store, and when it returns it returns the
\* id the first call returned.
C1_SaveMatchIdempotent ==
    \A p \in Procs :
        Repeats(p) =>
            LET m == call[p].m[1]
            IN  /\ \A w \in made[p] : w[1] = "update"
                /\ pend[p] # None => pend[p][1].kind = "update"
                /\ Cardinality(rows_with_key(matches, m.id)) = 1
                /\ Cardinality(rows_with_key(teams, m.team1[1].id)) = 1
                /\ Cardinality(rows_with_key(teams, m.team2[1].id)) = 1
                /\ m.tournament # None =>
                     Cardinality(
                        rows_with_key(tournaments, m.tournament[1].id)) = 1
                /\ Finished(p) /\ out[p].status = "raised" =>
                     out[p].err = "PersistenceError"
                /\ Finished(p) /\ out[p].status = "ok" =>
                     out[p].val = prev[p].out.val

\* C1 witness: a repeated save_match with a tournament returned the id of
\* the first call after committing its update.
C1_Witness ==
    \E p \in Procs :
        /\ Repeats(p)
        /\ Finished(p)
        /\ out[p].status = "ok"
        /\ out[p].val = prev[p].out.val
        /\ call[p].m[1].tournament # None
        /\ made[p] = {<< "update", out[p].val[1] >>}

\* C9: save_match on a match without its team1 or team2 sub-record raises
\* ValueError before any statement is sent: the call sends no statement,
\* commits nothing, and the tables are as they were when the call began,
\* also when the match carries bare team1_id / team2_id values.
C9_MissingTeamRejected ==
    \A p \in Procs :
        (/\ call[p].op = "save_match"
         /\ (call[p].m[1].team1 = None \/ call[p].m[1].team2 = None)) =>
            /\ Finished(p)
            /\ out[p].status = "raised"
            /\ out[p].err = "ValueError"
            /\ stmts[p] = 0
            /\ commits[p] = 0
            /\ pend[p] = None
            /\ Snapshot = pre[p]

\* C9 witness: with rows already stored, a match that has only the bare
\* team1_id (no team1 object) was rejected.
C9_Witness ==
    \E p \in Procs :
        /\ call[p].op = "save_match"
        /\ call[p].m[1].team1 = None
        /\ call[p].m[1].team1_id # None
        /\ call[p].m[1].team2 # None
        /\ out[p].err = "ValueError"
        /\ matches # {}

\* The team sub-records of the save_match input of p.
input_teams(p) ==
    IF call[p].op # "save_match" THEN {}
    ELSE {t[1] : t \in {call[p].m[1].team1, call[p].m[1].team2} \ {None}}

\* C10: get-or-create of a team that is already stored returns the stored
\* id and leaves the row untouched.  For every team of a save_match input
\* whose key was stored when the call began: the stored row is still the
\* only row with that key, unchanged (it keeps its first name), the id the
\* call resolved for it is the stored id, and looking it up never fails on
\* the uniqueness constraint.  The same for the dictionary handed to
\* get_or_create_team, whose return value is the stored id.
C10_TeamLookupKeepsRow ==
    /\ \A p \in Procs : \A t \in input_teams(p) :
          LET old == rows_with_key(pre[p].teams, t.id)
          IN  old # {} =>
                /\ Cardinality(old) = 1
                /\ rows_with_key(teams, t.id) = old
                /\ (call[p].m[1].team1 = Some(t) /\ loc[p].team1_id # None)
                      => loc[p].team1_id[1] \in {r.id : r \in old}
                /\ (call[p].m[1].team2 = Some(t) /\ loc[p].team2_id # None)
                      => loc[p].team2_id[1] \in {r.id : r \in old}
                /\ Finished(p) /\ out[p].status = "raised" =>
                      out[p].err \in {"PersistenceError", "ValueError"}
    /\ \A p \in Procs :
          (/\ call[p].op = "get_or_create_team"
           /\ ~ no_source_id(call[p].data[1])) =>
              LET old == rows_with_key(pre[p].teams, call[p].data[1]["id"])
              IN  old # {} =>
                    /\ Cardinality(old) = 1
                    /\ rows_with_key(teams, call[p].data[1]["id"]) = old
                    /\ Finished(p) /\ out[p].status = "ok" =>
                          out[p].val[1] \in {r.id : r \in old}
                    /\ Finished(p) /\ out[p].status = "raised" =>
                          out[p].err = "PersistenceError"

\* C10 witness: a save_match carrying team 1 under a new name returned, and
\* the one stored row of team 1 still has the first name.
C10_Witness ==
    \E p \in Procs :
        /\ Finished(p)
        /\ out[p].status = "ok"
        /\ call[p].op = "save_match"
        /\ call[p].m[1].team1 = Some(NaviRenamed)
        /\ \E r \in pre[p].teams :
              /\ r.source_id = 1
              /\ r.name = "navi"
              /\ rows_with_key(teams, 1) = {r}
              /\ loc[p].team1_id = Some(r.id)

\* C2: a persistence error at any step of save_match leaves the store as it
\* was before the call.  For a single caller: when save_match has raised a
\* persistence error, the tables equal the tables at the start of the call.
C2_FailureLeavesStoreUnchanged ==
    \A p \in Procs :
        (/\ call[p].op = "save_match"
         /\ Finished(p)
         /\ out[p].status = "raised"
         /\ out[p].err = "PersistenceError") => Snapshot = pre[p]

\* C3: one save_match call commits in one transactional scope, exactly
\* once.  No call commits more than once, and no committed state shows a
\* team or tournament row of a call without that call's match row or match
\* update.
C3_OneTransaction ==
    \A p \in Procs :
        call[p].op = "save_match" =>
            /\ commits[p] <= 1
            /\ (\E w \in made[p] : w[1] \in {"teams", "tournaments"}) =>
                   (\E w \in made[p] : w[1] \in {"matches", "update"})

\* The uncommitted rows that open transactions hold for a table.
pending_rows(tname) ==
    {pend[p][1].row[1] :
        p \in {q \in Procs : /\ pend[q] # None
                             /\ pend[q][1].table = tname
                             /\ pend[q][1].row # None}}

\* C4: referential integrity.  Every match row, committed or still
\* uncommitted, references committed team rows as team1 and team2, and a
\* committed tournament row when its tournament reference is present, each
\* created no later than the match row.
C4_ReferentialIntegrity ==
    \A m \in matches \cup pending_rows("matches") :
        /\ \E t \in teams :
              t.id = m.team1_id /\ t.created_at <= m.created_at
        /\ \E t \in teams :
              t.id = m.team2_id /\ t.created_at <= m.created_at
        /\ m.tournament_id # None =>
              \E t \in tournaments :
                  /\ t.id = m.tournament_id[1]
                  /\ t.created_at <= m.created_at

\* C4 witness: a committed match references two distinct teams and a
\* tournament, all three created before it.
C4_Witness ==
    \E m \in matches : \E t1, t2 \in teams : \E tr \in tournaments :
        /\ m.team1_id = t1.id
        /\ m.team2_id = t2.id
        /\ t1.id # t2.id
        /\ m.tournament_id = Some(tr.id)
        /\ t1.created_at < m.created_at
        /\ t2.created_at < m.created_at
        /\ tr.created_at < m.created_at

\* C5: under every interleaving of concurrent save_match,
\* get_or_create_team and get_or_create_tournament calls, each table holds
\* at most one row, committed or uncommitted, per (source_type, source_id).
C5_OneRowPerKey ==
    /\ \A r1, r2 \in teams \cup pending_rows("teams") :
          (r1.source_type = r2.source_type /\ r1.source_id = r2.source_id)
              => r1 = r2
    /\ \A r1, r2 \in tournaments \cup pending_rows("tournaments") :
          (r1.source_type = r2.source_type /\ r1.source_id = r2.source_id)
              => r1 = r2
    /\ \A r1, r2 \in matches \cup pending_rows("matches") :
          (r1.source_type = r2.source_type /\ r1.source_id = r2.source_id)
              => r1.id = r2.id

\* C5 witness: two callers raced on the first insert of a team; the INSERT
\* of one was refused and the table holds one row with the key.
C5_Witness ==
    \E p \in Procs :
        /\ Finished(p)
        /\ out[p].err = "IntegrityError"
        /\ out[p].at = "team_insert"
        /\ Cardinality(rows_with_key(teams, 1)) = 1
        /\ Cardinality(rows_with_key(teams, 2)) = 1

\* C6: a caller whose team or tournament INSERT hits the uniqueness
\* constraint re-reads the row and goes on: no save_match or get-or-create
\* call ends with the constraint violation of a team or tournament insert.
C6_LoserReadsExistingRow ==
    \A p \in Procs :
        ~ (/\ Finished(p)
           /\ out[p].status = "raised"
           /\ out[p].err = "IntegrityError"
           /\ out[p].at \in {"team_insert", "tournament_insert",
                             "goc_team_insert", "goc_tournament_insert"})

\* The columns the allow-list of update_match names.
ClaimedColumns ==
    {"team1_score", "team2_score", "status", "winner_team_id",
     "loser_team_id", "raw_data"}

\* C7: update_match(id, updates) changes only allow-listed columns whose
\* key is in updates, and the two timestamps, of the row with that id.
\* From the start of an update_match call on: teams and tournaments are
\* unchanged, no match row appears or disappears, every column of every
\* other row is unchanged, a column of the target row that is not an
\* allow-listed key of updates (nor a timestamp) is unchanged, and once the
\* call has returned each allow-listed column in updates has the value
\* updates gives.
C7_UpdateTouchesOnlyAllowed ==
    \A p \in Procs :
        call[p].op = "update_match" =>
            LET u == call[p].updates[1]
                id == call[p].match_id[1]
            IN  /\ teams = pre[p].teams
                /\ tournaments = pre[p].tournaments
                /\ {r.id : r \in matches} = {r.id : r \in pre[p].matches}
                /\ \A r \in matches : \A old \in pre[p].matches :
                      old.id = r.id =>
                        \A c \in DOMAIN r :
                            IF r.id = id /\ c \in ClaimedColumns \cap DOMAIN u
                            THEN /\ r[c] = old[c] \/ r[c] = u[c]
                                 /\ (Finished(p) /\ out[p].status = "ok")
                                       => r[c] = u[c]
                            ELSE IF r.id = id /\ c \in {"updated_at",
                                                        "last_fetched_at"}
                            THEN TRUE
                            ELSE r[c] = old[c]

\* C7 witness: update_match(id of match 1, {status, slug}) returned; the
\* status of match 1 changed and its slug did not.
C7_Witness ==
    \E p \in Procs : \E r \in matches :
        /\ call[p].op = "update_match"
        /\ Finished(p)
        /\ out[p].status = "ok"
        /\ DOMAIN call[p].updates[1] = {"status", "slug"}
        /\ call[p].match_id = Some(StoredMatch1.id)
        /\ r.id = StoredMatch1.id
        /\ r.status = "finished"
        /\ StoredMatch1.status = "upcoming"
        /\ r.slug = StoredMatch1.slug
        /\ r.slug # call[p].updates[1]["slug"]

\* C8: update_match stamps updated_at and last_fetched_at exactly when
\* updates holds an allow-listed key.  Without one the call sends no
\* statement, commits nothing and leaves the matches table as it was; with
\* one, a call that has returned sent one UPDATE, committed once, and the
\* target row carries in both timestamps the same time, later than both
\* old values.
C8_StampsIffRecognised ==
    \A p \in Procs :
        call[p].op = "update_match" =>
            LET u == call[p].updates[1]
                id == call[p].match_id[1]
                recognised == ClaimedColumns \cap DOMAIN u
            IN  /\ recognised = {} =>
                    /\ stmts[p] = 0
                    /\ commits[p] = 0
                    /\ pend[p] = None
                    /\ matches = pre[p].matches
                    /\ pc[p] \in {"update_build", "idle"}
                    /\ Finished(p) => out[p].status = "ok"
                /\ (recognised # {} /\ Finished(p) /\ out[p].status = "ok")
                    =>
                    /\ stmts[p] = 1
                    /\ commits[p] = 1
                    /\ \A r \in matches : \A old \in pre[p].matches :
                          (r.id = id /\ old.id = id) =>
                              /\ r.updated_at = r.last_fetched_at
                              /\ r.updated_at > old.updated_at
                              /\ r.updated_at > old.last_fetched_at

\* C8 witness: an update_match with the one key status returned and
\* stamped match 2; another with only unrelated keys is covered by the
\* first conjunct of the claim.
C8_Witness ==
    \E p \in Procs : \E r \in matches :
        /\ call[p].op = "update_match"
        /\ Finished(p)
        /\ out[p].status = "ok"
        /\ DOMAIN call[p].updates[1] = {"status", "unrelated_field"}
        /\ call[p].match_id = Some(StoredMatch2.id)
        /\ r.id = StoredMatch2.id
        /\ r.updated_at = clock
        /\ r.last_fetched_at = clock
        /\ clock > StoredMatch2.updated_at

\* Caller p has returned from a call of operation op.
Returned(p, op) ==
    Finished(p) /\ call[p].op = op /\ out[p].status = "ok"

\* C11: ai_predictions holds at most one row per (match_id, source_type),
\* and a save_ai_prediction that returned for a pair that had a row when
\* the call began returned that row's id, inserted nothing, and left the
\* row with the payload and source_id of the call, a later updated_at, and
\* every other column and every other row as before.
C11_OnePredictionPerMatchSource ==
    /\ \A r1, r2 \in ai_predictions :
          (r1.match_id = r2.match_id /\ r1.source_type = r2.source_type)
              => r1 = r2
    /\ \A p \in Procs : \A old \in pre[p].ai_predictions :
          (/\ Returned(p, "save_ai_prediction")
           /\ old.match_id = call[p].match_id[1]
           /\ old.source_type = SOURCE_TYPE) =>
              LET d == to_ai_prediction_dict(call[p].data[1],
                                             call[p].match_id[1])
              IN  /\ out[p].val = Some(old.id)
                  /\ {r.id : r \in ai_predictions} =
                         {r.id : r \in pre[p].ai_predictions}
                  /\ pre[p].ai_predictions \ {old} \subseteq ai_predictions
                  /\ \E r \in ai_predictions :
                        /\ r.id = old.id
                        /\ r.prediction_data = d.prediction_data
                        /\ r.source_id = call[p].data[1].id
                        /\ r.updated_at > old.updated_at
                        /\ r.match_id = old.match_id
                        /\ r.source_type = old.source_type
                        /\ r.created_at = old.created_at

\* C11 witness: Prediction2 was saved for a match that had Prediction1
\* stored; the one row now carries upstream id 12 instead of 11.
C11_Witness ==
    \E p \in Procs : \E old \in pre[p].ai_predictions :
        /\ Returned(p, "save_ai_prediction")
        /\ call[p].data = Some(Prediction2)
        /\ old.match_id = call[p].match_id[1]
        /\ old.source_id = Prediction1.id
        /\ Cardinality(ai_predictions) = 1
        /\ \E r \in ai_predictions :
              r.id = old.id /\ r.source_id = Prediction2.id

\* C12: betting_odds holds at most one row per
\* (match_id, source_type, provider).  A save_betting_odds that returned for
\* a triple that had a row when the call began returned that row's id,
\* inserted nothing and left the row with the coefficients, implied
\* probabilities and payload of the call; one that returned for a triple
\* without a row added exactly one row, with a new id, next to the rows of
\* the other providers.
C12_OneOddsRowPerProvider ==
    /\ \A r1, r2 \in betting_odds :
          (/\ r1.match_id = r2.match_id
           /\ r1.source_type = r2.source_type
           /\ r1.provider = r2.provider) => r1 = r2
    /\ \A p \in Procs :
          Returned(p, "save_betting_odds") =>
              LET d == to_betting_odds_dict(call[p].data[1],
                                            call[p].match_id[1])
                  olds == {x \in pre[p].betting_odds :
                              /\ x.match_id = d.match_id
                              /\ x.source_type = d.source_type
                              /\ x.provider = d.provider}
              IN  /\ pre[p].betting_odds \ olds \subseteq betting_odds
                  /\ \E r \in betting_odds :
                        /\ out[p].val = Some(r.id)
                        /\ r.match_id = d.match_id
                        /\ r.provider = call[p].data[1].provider
                        /\ r.team1_odds = call[p].data[1].team_1.coeff
                        /\ r.team2_odds = call[p].data[1].team_2.coeff
                        /\ r.team1_implied_prob =
                               implied_prob(call[p].data[1].team_1.coeff)
                        /\ r.team2_implied_prob =
                               implied_prob(call[p].data[1].team_2.coeff)
                        /\ r.odds_data = d.odds_data
                        /\ IF olds = {}
                           THEN /\ r \notin pre[p].betting_odds
                                /\ r.id \notin
                                       {x.id : x \in pre[p].betting_odds}
                                /\ betting_odds =
                                       pre[p].betting_odds \cup {r}
                           ELSE /\ olds = {CHOOSE x \in olds : TRUE}
                                /\ \A x \in olds : x.id = r.id
                                /\ {x.id : x \in betting_odds} =
                                       {x.id : x \in pre[p].betting_odds}

\* C12 witness: OddsALater was saved for a match that had OddsA stored; the
\* one row of provider a now has coefficient 0 and no implied probability
\* for team 1, and 3.0 with probability 1/3 for team 2.
C12_Witness ==
    \E p \in Procs : \E old \in pre[p].betting_odds :
        /\ Returned(p, "save_betting_odds")
        /\ call[p].data = Some(OddsALater)
        /\ old.match_id = call[p].match_id[1]
        /\ old.team1_implied_prob = Some(Float(1, 2))
        /\ Cardinality(betting_odds) = 1
        /\ \E r \in betting_odds :
              /\ r.id = old.id
              /\ r.team1_implied_prob = None
              /\ r.team2_implied_prob = Some(Float(1, 3))

\* Odds of two providers stored for one match: two rows.
TwoProvidersStored ==
    \E r1, r2 \in betting_odds :
        /\ r1.match_id = r2.match_id
        /\ r1.provider = "a"
        /\ r2.provider = "b"
        /\ r1.id # r2.id

\* C13: every ai_predictions row and every betting_odds row, committed or
\* not yet committed, references a stored match, and a save_ai_prediction
\* or save_betting_odds call whose match id is not stored commits nothing,
\* leaves both tables as they were and, once over, has raised.
C13_SideRowsReferenceMatch ==
    /\ \A r \in ai_predictions \cup betting_odds
                  \cup pending_rows("ai_predictions")
                  \cup pending_rows("betting_odds") :
          \E m \in matches : m.id = r.match_id
    /\ \A p \in Procs :
          (/\ call[p].op \in {"save_ai_prediction", "save_betting_odds"}
           /\ call[p].match_id[1] \notin {m.id : m \in matches}) =>
              /\ made[p] = {}
              /\ pend[p] = None
              /\ ai_predictions = pre[p].ai_predictions
              /\ betting_odds = pre[p].betting_odds
              /\ Finished(p) => out[p].status = "raised"

\* C13 witness: with a prediction stored for a match, save_betting_odds for
\* an id that no match has was refused at its INSERT.
C13_Witness ==
    \E p \in Procs :
        /\ Finished(p)
        /\ call[p].op = "save_betting_odds"
        /\ call[p].match_id = Some(0)
        /\ out[p].err = "IntegrityError"
        /\ out[p].at = "odds_insert"
        /\ ai_predictions # {}
        /\ betting_odds = {}

\* The stage of a status along upcoming -> current -> finished.
StatusRank(status) ==
    IF status = "upcoming" THEN 0 ELSE IF status = "current" THEN 1 ELSE 2

\* C14: the stored status of a match never moves back to an earlier stage:
\* no step takes a match row from a status to one of lower rank.
C14_StatusNeverMovesBack ==
    [][\A old \in matches : \A new \in matches' :
          old.id = new.id => StatusRank(new.status) >= StatusRank(old.status)
      ]_vars

\* The top-level operations that save.
SaveOps == {"save_match", "save_ai_prediction", "save_betting_odds"}

\* C15: no internal retry.  A step of a save call in which a statement or
\* commit fails with a persistence error ends the call: the call is over
\* with that error raised from the position that failed, its transaction is
\* rolled back, the step commits nothing and sends at most the one failed
\* statement; and a step that sends a statement and goes on never stays at
\* the statement it sent.
C15_NoRetry ==
    [][\A p \in Procs :
          /\ (/\ faults' = faults + 1
              /\ pc[p] # "idle"
              /\ call[p].op \in SaveOps) =>
                 /\ pc'[p] = "idle"
                 /\ out'[p].status = "raised"
                 /\ out'[p].err = "PersistenceError"
                 /\ out'[p].at = pc[p]
                 /\ pend'[p] = None
                 /\ stmts'[p] \in {stmts[p], stmts[p] + 1}
                 /\ commits'[p] = commits[p]
                 /\ Snapshot' = Snapshot
          /\ (/\ stmts'[p] = stmts[p] + 1
              /\ pc'[p] # "idle"
              /\ call[p].op \in SaveOps) =>
                 << pc'[p], loc'[p].slot >> # << pc[p], loc[p].slot >>
      ]_vars

\* C15 witness: each of the three operations has been ended by a
\* persistence error: this one is save_betting_odds failing at its UPDATE,
\* after one SELECT and one UPDATE were sent.
C15_Witness ==
    \E p \in Procs :
        /\ Finished(p)
        /\ call[p].op = "save_betting_odds"
        /\ out[p].err = "PersistenceError"
        /\ out[p].at = "odds_update"
        /\ stmts[p] = 2
        /\ pend[p] = None

\* C16: a match row that save_match inserted references the one tournament
\* row with the key of the input's tournament sub-record when the input has
\* one, and no tournament otherwise; a call whose input has no tournament
\* sub-record creates no tournament row and leaves the table as it was.
C16_TournamentReference ==
    \A p \in Procs :
        call[p].op = "save_match" =>
            LET m == call[p].m[1]
            IN  /\ \A r \in matches \cup pending_rows("matches") :
                      (r.id \notin {x.id : x \in pre[p].matches}
                       /\ r.source_id = m.id) =>
                          IF m.tournament # None
                          THEN \E t \in tournaments :
                                  /\ rows_with_key(tournaments,
                                                   m.tournament[1].id) = {t}
                                  /\ r.tournament_id = Some(t.id)
                          ELSE r.tournament_id = None
                /\ m.tournament = None =>
                      /\ tournaments = pre[p].tournaments
                      /\ pending_rows("tournaments") = {}
                      /\ ~ \E w \in made[p] : w[1] = "tournaments"

\* C16 witness: save_match inserted match 2 and found the tournament that
\* an earlier call had created.
C16_Witness ==
    \E p \in Procs : \E r \in matches : \E t \in pre[p].tournaments :
        /\ Returned(p, "save_match")
        /\ call[p].m = Some(Match2)
        /\ made[p] = {<< "matches", r.id >>}
        /\ r.tournament_id = Some(t.id)
        /\ t.source_id = Blast.id

\* A match without tournament sub-record was inserted with no reference.
InsertedWithoutTournament ==
    \E p \in Procs : \E r \in matches :
        /\ Returned(p, "save_match")
        /\ call[p].m[1].tournament = None
        /\ << "matches", r.id >> \in made[p]
        /\ r.tournament_id = None

\* The parser was handed payload arg for function fn and gave result r.
Parsed(fn) == parsed # None /\ payload[1].fn = fn

\* A nested object that is a mapping without id or without name.
lacks_id_or_name(v) ==
    /\ is_dict(v)
    /\ get(v[2], "id") = JNull \/ get(v[2], "name") = JNull

\* The dict d without key k.
without(d, k) == [x \in DOMAIN d \ {k} |-> d[x]]

\* The JSON object v without key k, its other keys keeping their order.
object_without(v, k) ==
    << "dict", without(v[2], k), SelectSeq(v[3], LAMBDA x : x # k) >>

\* C17: parse_match raises ValueError on a payload without id; parse_team
\* and parse_tournament return None, without raising, for an object that
\* lacks id or name; and such an object under team1, team2 or tournament
\* never makes parse_match fail: a match that is returned has that
\* sub-record absent, and a parse_match that raises also raises on the
\* payload without the object.
C17_MissingIdFailsNestedDegrades ==
    /\ Parsed("parse_match") =>
          LET d == payload[1].arg[2]
              r == parsed[1]
          IN  /\ get(d, "id") = JNull =>
                    r.status = "raised" /\ r.err = "ValueError"
              /\ \A k \in {"team1", "team2", "tournament"} :
                    lacks_id_or_name(get(d, k)) =>
                        /\ r.status = "ok" => r.val[1][k] = None
                        /\ r.status = "raised" =>
                               parse_match(without(d, k)) = r
    /\ (Parsed("parse_team") /\ lacks_id_or_name(payload[1].arg)) =>
          parsed[1] = Ok(None)
    /\ (Parsed("parse_tournament") /\ lacks_id_or_name(payload[1].arg)) =>
          parsed[1] = Ok(None)

\* C17 witness: parse_match returned a match for a payload whose team1
\* object has an id and no name; team1 is absent, team2 is present, and the
\* bare team1_id of the payload is kept.
C17_Witness ==
    /\ Parsed("parse_match")
    /\ parsed[1].status = "ok"
    /\ get(payload[1].arg[2], "team1") = TeamPayload(JInt(7), Missing)
    /\ parsed[1].val[1].team1 = None
    /\ parsed[1].val[1].team2 # None
    /\ parsed[1].val[1].team1_id = JInt(7)

\* parse_match rejected a payload without id.
MatchWithoutIdRejected ==
    /\ Parsed("parse_match")
    /\ "id" \notin DOMAIN payload[1].arg[2]
    /\ parsed[1] = Raises("ValueError")

\* C18: for a match payload with a valid id, a nested prediction or odds
\* object never makes parse_match raise, whatever its shape and field
\* values: when the team and tournament objects parse, parse_match returns
\* a match.
C18_InvalidNestedNeverRaises ==
    Parsed("parse_match") =>
        LET d == payload[1].arg[2]
        IN  (/\ get(d, "id") = JInt(7)
             /\ parse_team(get(d, "team1")).status = "ok"
             /\ parse_team(get(d, "team2")).status = "ok"
             /\ parse_tournament(get(d, "tournament")).status = "ok")
                => parsed[1].status = "ok"

\* The prediction_scores_data entry of a prediction payload.
scores_of(v) ==
    IF is_dict(v) THEN get(v[2], "prediction_scores_data") ELSE JNull

ScoresFields ==
    {"predicted_score", "proximity_factors", "closest_valid_score",
     "overall_proximity_factor", "neighbor_proximity_factor"}

\* C19: parse_ai_prediction returns None, without raising, whenever
\* prediction_scores_data is missing, empty or no mapping, and every
\* prediction it returns, alone or inside a parsed match, carries a
\* scoring-proximity structure with its five fields.
C19_PredictionNeedsScores ==
    /\ Parsed("parse_ai_prediction") =>
          LET sc == scores_of(payload[1].arg)
              r == parsed[1]
          IN  /\ (~ truthy(sc) \/ ~ is_dict(sc)) => r = Ok(None)
              /\ (r.status = "ok" /\ r.val[1] # None) =>
                    /\ truthy(sc) /\ is_dict(sc)
                    /\ DOMAIN r.val[1][1].prediction_scores_data
                           = ScoresFields
    /\ (Parsed("parse_match") /\ parsed[1].status = "ok") =>
          LET pr == parsed[1].val[1].ai_predictions
          IN  pr # None =>
                  /\ truthy(scores_of(get(payload[1].arg[2],
                                          "ai_predictions")))
                  /\ DOMAIN pr[1].prediction_scores_data = ScoresFields

\* C19 witness: a prediction payload with id and match_id whose
\* prediction_scores_data is an empty mapping gave None.
C19_Witness ==
    /\ Parsed("parse_ai_prediction")
    /\ is_dict(payload[1].arg)
    /\ get(payload[1].arg[2], "id") = JInt(7)
    /\ get(payload[1].arg[2], "match_id") = JInt(7)
    /\ get(payload[1].arg[2], "prediction_scores_data") = JDict(<< >>)
    /\ parsed[1] = Ok(None)

\* A prediction with its scores structure was returned.
PredictionReturned ==
    /\ Parsed("parse_ai_prediction")
    /\ parsed[1].status = "ok"
    /\ parsed[1].val[1] # None
    /\ parsed[1].val[1][1].prediction_scores_data.predicted_score
           = Float(3, 2)

\* C20: parse_betting_odds returns None whenever provider, team_1 or team_2
\* is missing or team_1 / team_2 is not a non-empty mapping, and every odds
\* record it returns has a provider and both team-odds structures.
C20_OddsNeedProviderAndTeams ==
    (Parsed("parse_betting_odds") /\ is_dict(payload[1].arg)) =>
        LET d == payload[1].arg[2]
            r == parsed[1]
            unusable(v) == ~ truthy(v) \/ ~ is_dict(v)
        IN  /\ (\/ get(d, "provider") = JNull
                \/ unusable(get(d, "team_1"))
                \/ unusable(get(d, "team_2"))) => r = Ok(None)
            /\ (r.status = "ok" /\ r.val[1] # None) =>
                  /\ r.val[1][1].provider # ""
                  /\ "coeff" \in DOMAIN r.val[1][1].team_1
                  /\ "coeff" \in DOMAIN r.val[1][1].team_2

\* The betting_odds row that save_betting_odds writes for the odds record
\* the parser returned, on the first stored match.
stored_odds ==
    odds_row(to_betting_odds_dict(parsed[1].val[1][1], StoredMatch1.id), 6)

\* One side of an odds row against the team entry of the payload: the
\* implied probability is the reciprocal of a non-zero coefficient (0.5 for
\* 2.0), computed without a zero divisor, and absent for a coefficient of
\* zero; an entry without a coeff key is stored as 0.0 and absent.
side_consistent(entry, odds, prob) ==
    /\ odds[1] # 0 =>
          /\ prob # None
          /\ prob[1][2] # 0
          /\ prob[1][1] * odds[1] = prob[1][2] * odds[2]
    /\ odds = Float(2, 1) => prob = Some(Float(1, 2))
    /\ odds[1] = 0 => prob = None
    /\ "coeff" \notin DOMAIN entry[2] => odds = Float(0, 1) /\ prob = None

\* C21: to_betting_odds_dict sets each side's implied probability to
\* 1 / coeff when the coeff is non-zero (0.5 for 2.0) and to absent when it
\* is zero; an odds payload whose team entry has no coeff key is stored with
\* coefficient 0.0 and an absent implied probability, never with a division
\* by zero.
C21_ImpliedProbability ==
    (/\ Parsed("parse_betting_odds")
     /\ parsed[1].status = "ok"
     /\ parsed[1].val[1] # None) =>
        LET d == payload[1].arg[2]
        IN  /\ side_consistent(get(d, "team_1"), stored_odds.team1_odds,
                               stored_odds.team1_implied_prob)
            /\ side_consistent(get(d, "team_2"), stored_odds.team2_odds,
                               stored_odds.team2_implied_prob)

\* C21 witness: odds whose team_1 entry has no coeff key and whose team_2
\* coeff is 2.0 were parsed; the row holds 0.0 and no probability for
\* team 1, and 2.0 and 0.5 for team 2.
C21_Witness ==
    /\ Parsed("parse_betting_odds")
    /\ parsed[1].status = "ok"
    /\ parsed[1].val[1] # None
    /\ "coeff" \notin DOMAIN get(payload[1].arg[2], "team_1")[2]
    /\ stored_odds.team1_odds = Float(0, 1)
    /\ stored_odds.team1_implied_prob = None
    /\ stored_odds.team2_odds = Float(2, 1)
    /\ stored_odds.team2_implied_prob = Some(Float(1, 2))

\* The numeric fields of a prediction, of its scores structure and of a
\* team-odds structure, and the optional fields of a match.
PredictionNumbers ==
    {"prediction_team1_score", "prediction_team2_score",
     "prediction_winner_team_id"}

ScoresNumbers ==
    {"predicted_score", "overall_proximity_factor",
     "neighbor_proximity_factor"}

OddsFloats == {"coeff", "max_coeff", "aggrement_score"}

OptionalMatchFields ==
    {"slug", "bo_type", "tier", "team1_score", "team2_score",
     "winner_team_id", "loser_team_id"}

\* A team-odds record against its payload entry: a numeric field the entry
\* does not have is 0.0 (team_id: 0).
odds_numbers_defaulted(entry, team) ==
    /\ \A k \in OddsFloats :
          k \notin DOMAIN entry[2] => team[k] = Float(0, 1)
    /\ "team_id" \notin DOMAIN entry[2] => team.team_id = 0

\* C22: in a parsed record an absent prediction or odds numeric field is
\* 0 / 0.0, never absent, while an absent optional field of a match, team
\* or tournament (slug, scores, winner / loser id, tier, bo_type, dates)
\* stays absent.
C22_NumericDefaultsOptionalAbsent ==
    /\ (/\ Parsed("parse_ai_prediction")
        /\ parsed[1].status = "ok"
        /\ parsed[1].val[1] # None) =>
          LET d == payload[1].arg[2]
              r == parsed[1].val[1][1]
          IN  /\ \A k \in PredictionNumbers : k \notin DOMAIN d => r[k] = 0
              /\ \A k \in ScoresNumbers :
                    k \notin DOMAIN get(d, "prediction_scores_data")[2] =>
                        r.prediction_scores_data[k] = Float(0, 1)
    /\ (/\ Parsed("parse_betting_odds")
        /\ parsed[1].status = "ok"
        /\ parsed[1].val[1] # None) =>
          LET d == payload[1].arg[2]
              r == parsed[1].val[1][1]
          IN  /\ odds_numbers_defaulted(get(d, "team_1"), r.team_1)
              /\ odds_numbers_defaulted(get(d, "team_2"), r.team_2)
    /\ (Parsed("parse_match") /\ parsed[1].status = "ok") =>
          LET d == payload[1].arg[2]
              r == parsed[1].val[1]
          IN  /\ \A k \in OptionalMatchFields :
                    k \notin DOMAIN d => r[k] = JNull
              /\ "start_date" \notin DOMAIN d => r.start_date = None
              /\ \A k \in {"team1", "team2", "tournament"} :
                    (r[k] # None /\ "slug" \notin DOMAIN get(d, k)[2]) =>
                        r[k][1].slug = JNull
    /\ (/\ Parsed("parse_team") \/ Parsed("parse_tournament")
        /\ parsed[1].status = "ok"
        /\ parsed[1].val[1] # None) =>
          LET d == payload[1].arg[2]
              r == parsed[1].val[1][1]
          IN  /\ "slug" \notin DOMAIN d => r.slug = JNull
              /\ (Parsed("parse_tournament") /\ "tier" \notin DOMAIN d) =>
                     r.tier = JNull
              /\ (/\ Parsed("parse_tournament")
                  /\ "start_date" \notin DOMAIN d) => r.start_date = None

\* C22 witness: a prediction payload without prediction_team1_score and
\* with a scores structure without predicted_score was parsed into a
\* record holding 0 and 0.0 for them.
C22_Witness ==
    /\ Parsed("parse_ai_prediction")
    /\ parsed[1].status = "ok"
    /\ parsed[1].val[1] # None
    /\ "prediction_team1_score" \notin DOMAIN payload[1].arg[2]
    /\ "predicted_score" \notin
           DOMAIN get(payload[1].arg[2], "prediction_scores_data")[2]
    /\ parsed[1].val[1][1].prediction_team1_score = 0
    /\ parsed[1].val[1][1].prediction_scores_data.predicted_score
           = Float(0, 1)

\* A match payload without slug, scores, winner and start_date was parsed
\* into a match on which they are absent.
OptionalFieldsStayAbsent ==
    /\ Parsed("parse_match")
    /\ parsed[1].status = "ok"
    /\ DOMAIN payload[1].arg[2] = {"id"}
    /\ parsed[1].val[1].slug = JNull
    /\ parsed[1].val[1].team1_score = JNull
    /\ parsed[1].val[1].winner_team_id = JNull
    /\ parsed[1].val[1].start_date = None

\* The backoff sleeps among the sleeps of a request, in order.
backoffs(sleeps) == SelectSeq(sleeps, LAMBDA s : s.why = "wait_time")

\* _make_request has ended: it returned or raised.
RequestEnded == req.pc \in {"returned", "raised"}

\* C23 as stated: _make_request always terminates: one logical request
\* makes at most max_retries + 1 HTTP attempts, retry_count increases by one
\* on each retry, a failure that would be retried is raised once
\* retry_count has reached max_retries, and the wait before retry k
\* (k = 0, 1, ...) is DEFAULT_RETRY_DELAY * 2^k seconds.  A client
\* constructed with a negative max_retries makes one attempt, more than
\* max_retries + 1, and raises its failure at retry_count 0.
C23_MakeRequestTerminates ==
    /\ [](client # None =>
            /\ req.attempts <= client[1].max_retries + 1
            /\ req.attempts = req.retry_count
                  + (IF RequestEnded \/ req.pc = "backoff" THEN 1 ELSE 0)
            /\ Len(backoffs(req.sleeps)) = req.retry_count
            /\ \A k \in 0..(req.retry_count - 1) :
                  backoffs(req.sleeps)[k + 1].secs
                      = DEFAULT_RETRY_DELAY * (2 ^ k)
            /\ (/\ req.pc = "raised"
                /\ \/ req.response[1].kind = "ConnectionError"
                   \/ req.response[1].status_code = 429) =>
                  req.retry_count = client[1].max_retries)
    /\ [][req'.retry_count # req.retry_count =>
            \/ req'.retry_count = req.retry_count + 1
            \/ req'.retry_count = 0 /\ req'.attempts = 0]_vars
    /\ (req.pc = "try" ~> RequestEnded)

\* The retries a client allows: max_retries, none when it is negative.
retries_allowed == IF client[1].max_retries < 0 THEN 0
                   ELSE client[1].max_retries

\* C23: _make_request always terminates.  For max_retries >= 0 one logical
\* request makes at most max_retries + 1 HTTP attempts and a failure that
\* would be retried is raised once retry_count has reached max_retries; for
\* a negative max_retries it makes exactly one attempt and raises such a
\* failure at retry_count 0.  retry_count increases by one on each retry,
\* and the wait before retry k (k = 0, 1, ...) is
\* DEFAULT_RETRY_DELAY * 2^k seconds.
C23_MakeRequestTerminatesFromZero ==
    /\ [](client # None =>
            /\ req.attempts <= retries_allowed + 1
            /\ req.retry_count <= retries_allowed
            /\ req.attempts = req.retry_count
                  + (IF RequestEnded \/ req.pc = "backoff" THEN 1 ELSE 0)
            /\ Len(backoffs(req.sleeps)) = req.retry_count
            /\ \A k \in 0..(req.retry_count - 1) :
                  backoffs(req.sleeps)[k + 1].secs
                      = DEFAULT_RETRY_DELAY * (2 ^ k)
            /\ (/\ req.pc = "raised"
                /\ \/ req.response[1].kind = "ConnectionError"
                   \/ req.response[1].status_code = 429) =>
                  req.retry_count = retries_allowed)
    /\ [][req'.retry_count # req.retry_count =>
            \/ req'.retry_count = req.retry_count + 1
            \/ req'.retry_count = 0 /\ req'.attempts = 0]_vars
    /\ (req.pc = "try" ~> RequestEnded)

\* C23 witness: with the default max_retries of 3 a request was answered
\* 429 four times; it slept the rate-limit delay, then 1 s, 2 s and 4 s,
\* and raised.
C23_Witness ==
    /\ client = Some([max_retries |-> 3, rate_limit_delay |-> Float(1, 2)])
    /\ req.pc = "raised"
    /\ req.attempts = 4
    /\ req.response[1].status_code = 429
    /\ req.sleeps = << RateLimitSleep, BackoffSleep(1), BackoffSleep(2),
                       BackoffSleep(4) >>

\* A client constructed with max_retries = -1 made one HTTP attempt, was
\* answered 429 and raised with no backoff.
C23_NegativeMaxRetries ==
    /\ client = Some([max_retries |-> -1, rate_limit_delay |-> Float(1, 2)])
    /\ req.pc = "raised"
    /\ req.attempts = 1
    /\ req.response[1].status_code = 429
    /\ req.sleeps = << RateLimitSleep >>

\* C24: fetch_matches terminates for every sequence of API responses: when
\* the paging loop goes on to another request (fetch_all_pages is set,
\* offset + limit < total count and the page was not empty), the offset of
\* that request is strictly greater than the offset of the one before,
\* also when the response reports a page limit of 0 or less.
C24_OffsetStrictlyIncreases ==
    [][(/\ fetch.op = "fetch_matches"
        /\ fetch.pc = "waiting"
        /\ fetch'.pc = "request") => fetch'.offset > fetch.offset]_vars

\* C25: fetch_match_by_id returns None when the API answers 404 and
\* re-raises every other HTTP error; the 404 is not retried: it ends the
\* request without a backoff wait (after a single HTTP attempt when it
\* answers the first one) and is turned into None.
C25_NotFoundIsNone ==
    (fetch.op = "fetch_match_by_id" /\ req.response # None) =>
        LET r == req.response[1]
        IN  /\ (r.kind = "HTTPError" /\ r.status_code = 404) =>
                  /\ req.pc = "raised"
                  /\ Len(backoffs(req.sleeps)) = req.attempts - 1
                  /\ req.retry_count = 0 =>
                        req.attempts = 1 /\ req.sleeps = << RateLimitSleep >>
                  /\ fetch.pc = "done" =>
                        fetch.result = [status |-> "ok", value |-> None,
                                        error |-> None]
            /\ (/\ r.kind = "HTTPError"
                /\ r.status_code # 404
                /\ fetch.pc = "done") =>
                  fetch.result = [status |-> "raised", value |-> None,
                                  error |-> Some(r)]

\* C25 witness: fetch_match_by_id returned None after one attempt that was
\* answered 404.
C25_Witness ==
    /\ fetch.op = "fetch_match_by_id"
    /\ fetch.pc = "done"
    /\ req.attempts = 1
    /\ req.response[1].status_code = 404
    /\ fetch.result.status = "ok"
    /\ fetch.result.value = None

\* fetch_match_by_id re-raised the 500 it was answered.
ServerErrorReraised ==
    /\ fetch.op = "fetch_match_by_id"
    /\ fetch.pc = "done"
    /\ req.response[1].status_code = 500
    /\ fetch.result.status = "raised"

\* C26: in _make_request an HTTP error response is retried only when its
\* status is 429; any other HTTP status error is raised by the attempt it
\* answers, with no retry and no backoff wait; a request failure that is no
\* HTTP error is retried as long as retry_count is below max_retries; the
\* rate-limit delay is slept on the first attempt of a logical request and
\* never on a retry.
C26_RetryPolicy ==
    [][/\ (req.pc = "get" /\ req'.pc # "get") =>
            LET r == req'.response[1]
                retried == req'.pc = "backoff"
            IN  /\ (r.kind = "HTTPError" /\ retried) => r.status_code = 429
                /\ (r.kind = "HTTPError" /\ r.status_code # 429) =>
                      req'.pc = "raised"
                /\ r.kind = "ConnectionError" =>
                      (retried <=> req.retry_count < client[1].max_retries)
                /\ ~ retried => RequestEnded'
                /\ req'.sleeps = req.sleeps
       /\ (req.pc = "try" /\ req'.pc = "get") =>
            /\ req.retry_count = 0 =>
                  req'.sleeps = Append(req.sleeps, RateLimitSleep)
            /\ req.retry_count # 0 => req'.sleeps = req.sleeps
            /\ req.retry_count = 0 <=> req.attempts = 0
       /\ (req.pc = "backoff" /\ req'.pc # "backoff") =>
            /\ req'.pc = "try"
            /\ req'.retry_count = req.retry_count + 1
            /\ req'.sleeps =
                  Append(req.sleeps, BackoffSleep(wait_time(req.retry_count)))
       /\ RequestEnded =>
            \/ req' = req
            \/ req' = [NoReq EXCEPT !.pc = "try"]]_vars

\* C26 witness: the first attempt failed without an HTTP answer and was
\* retried after 1 s; the retry was answered 500 and raised at once, with
\* no rate-limit delay and no further wait.
C26_Witness ==
    /\ req.pc = "raised"
    /\ req.attempts = 2
    /\ req.response[1].status_code = 500
    /\ req.sleeps = << RateLimitSleep, BackoffSleep(1) >>

\* Caller p runs (or has just run) save_match on a match whose row was
\* stored when the call began.
SavesStoredMatch(p) ==
    /\ p \in callers
    /\ call[p].op = "save_match"
    /\ rows_with_key(pre[p].matches, call[p].m[1].id) # {}

\* The row of the match of p's call when the call began, and now.
row_before(p) ==
    CHOOSE r \in rows_with_key(pre[p].matches, call[p].m[1].id) : TRUE

row_now(p) == CHOOSE r \in rows_with_key(matches, call[p].m[1].id) : TRUE

\* The columns of a match row that a save_match on a stored match leaves
\* alone.
FrozenColumns ==
    {"team1_id", "team2_id", "tournament_id", "slug", "start_date",
     "bo_type", "tier"}

\* C27: save_match on a match that is already stored leaves the stored
\* team1, team2 and tournament references and slug, start_date, bo_type and
\* tier as they were, whatever the new snapshot carries; only allow-listed
\* columns and the two timestamps can change; the teams and the tournament
\* the new snapshot names are resolved or created all the same.
C27_StoredMatchKeepsReferences ==
    \A p \in Procs :
        SavesStoredMatch(p) =>
            /\ Cardinality(rows_with_key(matches, call[p].m[1].id)) = 1
            /\ \A c \in FrozenColumns : row_now(p)[c] = row_before(p)[c]
            /\ \A c \in DOMAIN row_now(p) :
                  row_now(p)[c] # row_before(p)[c] =>
                      c \in ClaimedColumns \cup {"updated_at",
                                                 "last_fetched_at"}
            /\ (Finished(p) /\ out[p].status = "ok") =>
                  /\ \A t \in input_teams(p) :
                        rows_with_key(teams, t.id) # {}
                  /\ call[p].m[1].tournament # None =>
                        rows_with_key(tournaments,
                                      call[p].m[1].tournament[1].id) # {}

\* C27 witness: save_match(Match1Moved) returned on the store that held
\* match 1; the row keeps its teams, tournament, slug, start date, format
\* and tier, its status is the new one, and team 3 and tournament 2, which
\* only the new snapshot names, have been created.
C27_Witness ==
    \E p \in Procs :
        /\ SavesStoredMatch(p)
        /\ call[p].m = Some(Match1Moved)
        /\ Finished(p)
        /\ out[p].status = "ok"
        /\ row_before(p) = StoredMatch1
        /\ row_now(p).team1_id = StoredNavi.id
        /\ row_now(p).tournament_id = Some(StoredBlast.id)
        /\ row_now(p).slug = Some("m1")
        /\ row_now(p).start_date = Match1.start_date
        /\ row_now(p).status = "current"
        /\ rows_with_key(teams, G2.id) # {}
        /\ rows_with_key(tournaments, Esl.id) # {}

\* C28: a save_match call on an already stored match that returns has
\* written the row: it committed an UPDATE of it, updated_at and
\* last_fetched_at carry the time of that UPDATE, and status, both scores,
\* winner, loser and raw_data are those of the new snapshot, an absent
\* score or winner / loser replacing a stored value.
C28_StoredMatchAlwaysWritten ==
    \A p \in Procs :
        (SavesStoredMatch(p) /\ Finished(p) /\ out[p].status = "ok") =>
            LET m == call[p].m[1]
            IN  /\ << "update", row_now(p).id >> \in made[p]
                /\ row_now(p).updated_at > row_before(p).updated_at
                /\ row_now(p).last_fetched_at = row_now(p).updated_at
                /\ row_now(p).updated_at = clock
                /\ row_now(p).status = m.status
                /\ row_now(p).team1_score = m.team1_score
                /\ row_now(p).team2_score = m.team2_score
                /\ row_now(p).winner_team_id = m.winner_team_id
                /\ row_now(p).loser_team_id = m.loser_team_id
                /\ row_now(p).raw_data = raw_data_of(m)

\* C28 witness: match 1 was stored as finished 2:0 with a winner, and a
\* save_match of the upcoming snapshot, which has no scores and no winner,
\* returned: the scores and the winner of the row are absent again.
C28_Witness ==
    \E p \in Procs :
        /\ SavesStoredMatch(p)
        /\ Finished(p)
        /\ out[p].status = "ok"
        /\ call[p].m = Some(Match1)
        /\ row_before(p).team1_score = Some(2)
        /\ row_before(p).winner_team_id # None
        /\ row_now(p).team1_score = None
        /\ row_now(p).winner_team_id = None
        /\ row_now(p).status = "upcoming"

\* C29: the winner and the loser reference of every stored match, when
\* present, is the internal id of a stored team row, the one team1_id or
\* team2_id of the match refers to.
C29_WinnerIsInternalTeamId ==
    \A r \in matches :
        \A c \in {"winner_team_id", "loser_team_id"} :
            r[c] # None =>
                /\ r[c][1] \in {r.team1_id, r.team2_id}
                /\ r[c][1] \in {t.id : t \in teams}

\* C30: the required-field checks of the parser test truthiness: an id of 0
\* is treated as a missing id.  parse_match raises ValueError for a payload
\* with id 0; parse_team, parse_tournament and parse_ai_prediction return
\* None for an object with id 0, and parse_ai_prediction also for match_id
\* 0 or no match_id; each result is the one for the payload without the
\* field.
C30_ZeroIdIsMissing ==
    /\ (Parsed("parse_match") /\ get(payload[1].arg[2], "id") = JInt(0)) =>
          /\ parsed[1] = Raises("ValueError")
          /\ parsed[1] = parse_match(without(payload[1].arg[2], "id"))
    /\ (/\ Parsed("parse_team")
        /\ is_dict(payload[1].arg)
        /\ get(payload[1].arg[2], "id") = JInt(0)) =>
          /\ parsed[1] = Ok(None)
          /\ parsed[1] = parse_team(object_without(payload[1].arg, "id"))
    /\ (/\ Parsed("parse_tournament")
        /\ is_dict(payload[1].arg)
        /\ get(payload[1].arg[2], "id") = JInt(0)) =>
          /\ parsed[1] = Ok(None)
          /\ parsed[1] =
                parse_tournament(object_without(payload[1].arg, "id"))
    /\ (Parsed("parse_ai_prediction") /\ is_dict(payload[1].arg)) =>
          \A k \in {"id", "match_id"} :
              get(payload[1].arg[2], k) \in {JInt(0), JNull} =>
                  /\ parsed[1] = Ok(None)
                  /\ parsed[1] =
                        parse_ai_prediction(
                            object_without(payload[1].arg, k))

\* C30 witness: a prediction payload complete but for its match_id of 0
\* gave None.
C30_Witness ==
    /\ Parsed("parse_ai_prediction")
    /\ is_dict(payload[1].arg)
    /\ get(payload[1].arg[2], "id") = JInt(7)
    /\ get(payload[1].arg[2], "match_id") = JInt(0)
    /\ truthy(get(payload[1].arg[2], "prediction_scores_data"))
    /\ parsed[1] = Ok(None)

\* parse_match raised ValueError on a payload with id 0 whose nested
\* objects are complete.
MatchWithZeroIdRejected ==
    /\ Parsed("parse_match")
    /\ get(payload[1].arg[2], "id") = JInt(0)
    /\ get(payload[1].arg[2], "team1") = TeamPayload(JInt(7), JStr("navi"))
    /\ parsed[1] = Raises("ValueError")

====
